---- MODULE Spec2Model ----
(***************************************************************************)
(* Token-issuance and validation chain of the xYz backend: administrator   *)
(* login with account lockout, library-token issuance and deactivation,    *)
(* device exchange, refresh, and the two request gates.                    *)
(*                                                                         *)
(* Time is Date.now() in milliseconds since the start of the run; JWT      *)
(* timestamps (iat, exp) are in seconds, as jsonwebtoken keeps them.       *)
(* Strings the code transforms character by character (emails, library    *)
(* token values) are sequences of one-character strings.                   *)
(***************************************************************************)
EXTENDS Integers, Sequences, FiniteSets, TLC

VARIABLES
    now,        \* Date.now(), ms
    env,        \* process.env: JWT_SECRET, JWT_REFRESH_SECRET
    admins,     \* collection "admins": _id -> document
    libTokens,  \* collection "Library_Token": _id -> document
    appInfos,   \* collection "app_info": _id -> document
    jwts,       \* signed tokens the clients hold (the latest of each kind)
    reqs,       \* requests in flight: request id -> handler position and locals
    last,       \* response of the latest request handled in one step
    wrongRun,   \* per admin: wrong-password logins in a row since loginAttempts was 0
    failedSince,\* per admin: wrong-password comparisons since the last successful login
    authAttempts \* the Map "attempts" of authRateLimit: ip -> {count, timestamp}

vars == <<now, env, admins, libTokens, appInfos, jwts, reqs, last, wrongRun,
          failedSince, authAttempts>>

----------------------------------------------------------------------------
(* Bounds of the model *)

\* hours the clock may advance in the administrator specification
MaxHours == 2

\* half-days the clock may advance in the device specifications
MaxHalfDays == 3

\* validityDays an administrator may ask for (the code allows 1..365)
MaxValidityDays == 2

\* requests handled concurrently in the device-exchange specification
MaxRequests == 3

\* issuance requests handled concurrently in the issuance specification
MaxIssueRequests == 2

\* library tokens issued in the life-cycle specification
MaxTokens == 1

\* exchanges per library token in the life-cycle specification
MaxUsage == 2

\* exchanges in flight at once while tokens and owners come and go
MaxOverlap == 2

\* days the clock may advance in the refresh specification (a refresh token
\* lives 7 days)
MaxDays == 8

\* half-days the clock may advance in the account specification
MaxAccountHalfDays == 1

\* library tokens issued in the account specification, next to the one the
\* second administrator issued before
MaxAccountTokens == 1

\* the largest in-range validityDays sent in the account specification
MaxAccountValidityDays == 2

\* exchanges per library token in the session specification
MaxSessionExchanges == 1

\* authentications per AppInfo
MaxAuth == 2

\* login requests sent to the rate-limited login route
MaxLoginRequests == 6

\* quarters of an hour the clock may advance in the rate-limit specification
MaxLimitTicks == 1

\* login calls for one administrator that may overlap
MaxOverlapLogins == 6

\* exchanges with the library token of the long-session specification
MaxLongExchanges == 2

\* runs of the super-admin provisioning script that may overlap
MaxProvisionRuns == 3

\* issuance calls that draw candidates against a store that holds a token
MaxDrawRequests == 2

\* exchanges with the library token of the token-owner specification
MaxOwnerExchanges == 2

\* AppInfo records and exchanges of the app-identity specification
MaxIdentityRecords == 3

MaxIdentityExchanges == 4

----------------------------------------------------------------------------
(* Values *)

\* null / unset Date or reference
Null == -1

SecondMs == 1000

HourMs == 60 * 60 * SecondMs

\* Date.setDate(getDate() + 1): one calendar day
DayMs == 24 * HourMs

\* floor(Date.now() / 1000)
NowSeconds(t) == t \div SecondMs

Undefined == <<>>

UpperCase == {"A", "B", "C", "D", "E", "F"}

\* String.prototype.toLowerCase, one character
LowerChar(c) ==
    CASE c = "A" -> "a" [] c = "B" -> "b" [] c = "C" -> "c"
      [] c = "D" -> "d" [] c = "E" -> "e" [] c = "F" -> "f"
      [] OTHER -> c

\* the mutant: a lookup that keeps the caller's letter case
KeepCase(s) == s

\* String.prototype.toLowerCase
ToLowerCase(s) == [i \in 1..Len(s) |-> LowerChar(s[i])]

----------------------------------------------------------------------------
(* Password Verifier: bcrypt.hash / bcrypt.compare *)

\* bcrypt.hash(plain, 12): one-way, so the hash is opaque and only compare reads it
BcryptHash(plain) == [bcrypt |-> plain]

\* admin.comparePassword(candidate)
ComparePassword(candidate, hash) == hash = BcryptHash(candidate)

----------------------------------------------------------------------------
(* process.env and the signing keys *)

Unset == "unset"

\* process.env.JWT_SECRET || "fallback_secret_key"
JwtSecret(e) == IF e.JWT_SECRET = Unset THEN "fallback_secret_key" ELSE e.JWT_SECRET

\* process.env.JWT_REFRESH_SECRET || "fallback_secret_key"
JwtRefreshSecret(e) ==
    IF e.JWT_REFRESH_SECRET = Unset THEN "fallback_secret_key" ELSE e.JWT_REFRESH_SECRET

\* the configurations of the two secrets: unset, equal, distinct
Envs ==
    { [JWT_SECRET |-> Unset, JWT_REFRESH_SECRET |-> Unset],
      [JWT_SECRET |-> "k1", JWT_REFRESH_SECRET |-> "k1"],
      [JWT_SECRET |-> "k1", JWT_REFRESH_SECRET |-> "k2"] }

----------------------------------------------------------------------------
(* Session Token Signer/Verifier: jsonwebtoken sign / verify *)

NoJwt ==
    [type |-> "none", key |-> "", iat |-> 0, exp |-> 0, aud |-> "",
     id |-> Null, email |-> Undefined, appInfoId |-> Null, appName |-> Undefined,
     version |-> Undefined, libraryToken |-> Undefined, hasDeviceToken |-> FALSE]

\* a request body without the token field
MissingJwt == [NoJwt EXCEPT !.type = "undefined"]

\* expiresIn: "24h" (JWT_EXPIRES_IN default), "5m", "7d", in seconds
AdminTtl == 24 * 60 * 60

DeviceTtl == 5 * 60

RefreshTtl == 7 * 24 * 60 * 60

\* jwt.sign(payload, secret, {expiresIn, audience}); "key" stands for the signature
JwtSign(payload, secret, ttl, audience) ==
    [payload EXCEPT !.key = secret, !.exp = payload.iat + ttl, !.aud = audience]

\* jwt.verify(token, secret): signature first, then expiry (now >= exp is expired)
JwtVerify(token, secret, t) ==
    IF token.type = "none" THEN "JsonWebTokenError"
    ELSE IF token.key # secret THEN "JsonWebTokenError"
    ELSE IF NowSeconds(t) >= token.exp THEN "TokenExpiredError"
    ELSE "ok"

\* the clients keep the latest token of each kind
SameSlot(x, y) == x.type = y.type

Hold(held, tok) == {x \in held : ~SameSlot(x, tok)} \cup {tok}

----------------------------------------------------------------------------
(* Admin model: src/models/Admin.js *)

AdminIds == {1, 2}

\* stored emails are lower case (schema: lowercase: true)
EmailOf(a) == IF a = 1 THEN <<"a", "@", "e">> ELSE <<"b", "@", "e">>

PasswordOf(a) == IF a = 1 THEN "secret1" ELSE "secret2"

\* emails a caller may send: the stored ones in either letter case, and an unknown one
LoginEmails ==
    {EmailOf(1), EmailOf(2), <<"A", "@", "E">>, <<"B", "@", "e">>, <<"c", "@", "e">>}

LoginPasswords == {"secret1", "secret2", "wrong00"}

\* new Admin({email, password}) after the pre-save hook: schema defaults
NewAdmin(a) ==
    [email |-> ToLowerCase(EmailOf(a)), password |-> BcryptHash(PasswordOf(a)),
     isActive |-> TRUE, lastLogin |-> Null, loginAttempts |-> 0, lockUntil |-> Null]

\* virtual isLocked
IsLocked(doc, t) == doc.lockUntil # Null /\ doc.lockUntil > t

\* the mutant: the lookup drops the letter-case normalisation
FindExactEmail(store, email) ==
    {a \in DOMAIN store : store[a].email = KeepCase(email) /\ store[a].isActive}

\* statics.findByEmailWithPassword: findOne({email: email.toLowerCase(), isActive: true})
FindByEmailWithPassword(store, email) ==
    {a \in DOMAIN store : store[a].email = ToLowerCase(email) /\ store[a].isActive}

maxAttempts == 5

lockTime == 2 * HourMs

NoUpdate == [incAttempts |-> 0, setAttempts |-> Null, unsetAttempts |-> FALSE,
             setLock |-> Null, unsetLock |-> FALSE, setLastLogin |-> Null]

\* the mutant: the lock is set one attempt late
IncLoginAttemptsLate(doc, t) ==
    IF doc.lockUntil # Null /\ doc.lockUntil < t
    THEN [NoUpdate EXCEPT !.unsetLock = TRUE, !.setAttempts = 1]
    ELSE IF doc.loginAttempts >= maxAttempts /\ ~IsLocked(doc, t)
         THEN [NoUpdate EXCEPT !.incAttempts = 1, !.setLock = t + lockTime]
         ELSE [NoUpdate EXCEPT !.incAttempts = 1]

\* methods.incLoginAttempts: the update document it sends
IncLoginAttempts(doc, t) ==
    IF doc.lockUntil # Null /\ doc.lockUntil < t
    THEN [NoUpdate EXCEPT !.unsetLock = TRUE, !.setAttempts = 1]
    ELSE IF doc.loginAttempts + 1 >= maxAttempts /\ ~IsLocked(doc, t)
         THEN [NoUpdate EXCEPT !.incAttempts = 1, !.setLock = t + lockTime]
         ELSE [NoUpdate EXCEPT !.incAttempts = 1]

\* the mutant: the reset keeps the attempt counter
ResetLoginAttemptsKeepCounter(doc, t) ==
    [NoUpdate EXCEPT !.unsetLock = TRUE, !.setLastLogin = t]

\* methods.resetLoginAttempts: the update document it sends
ResetLoginAttempts(doc, t) ==
    [NoUpdate EXCEPT !.unsetAttempts = TRUE, !.unsetLock = TRUE, !.setLastLogin = t]

\* document.updateOne(update): $inc / $set / $unset on the stored document
\* (an unset loginAttempts reads back as its default 0)
UpdateOne(store, a, u) ==
    IF a \notin DOMAIN store THEN store
    ELSE [store EXCEPT ![a] =
            [@ EXCEPT
               !.loginAttempts =
                   IF u.setAttempts # Null THEN u.setAttempts
                   ELSE IF u.unsetAttempts THEN 0
                   ELSE @ + u.incAttempts,
               !.lockUntil =
                   IF u.unsetLock THEN Null
                   ELSE IF u.setLock # Null THEN u.setLock
                   ELSE @,
               !.lastLogin = IF u.setLastLogin # Null THEN u.setLastLogin ELSE @]]

\* methods.generateAuthToken
GenerateAuthToken(a, doc, t, e) ==
    JwtSign([NoJwt EXCEPT !.id = a, !.email = doc.email, !.type = "admin",
                          !.iat = NowSeconds(t)],
            JwtSecret(e), AdminTtl, "admin")

----------------------------------------------------------------------------
(* Responses *)

\* an ObjectId and the string of its hex digits are distinct JavaScript values
ObjectId(n) == [bson |-> "ObjectId", hex |-> n]

IdString(n) == [bson |-> "string", hex |-> n]

\* ObjectId.prototype.toString
IdToString(v) == [bson |-> "string", hex |-> v.hex]

NoResponse ==
    [op |-> "none", success |-> FALSE, status |-> 0, code |-> "", error |-> "",
     compared |-> FALSE, token |-> NoJwt, refreshToken |-> NoJwt, input |-> NoJwt,
     adminId |-> ObjectId(Null), target |-> Null, reqEmail |-> Undefined,
     reqToken |-> Undefined, reqDays |-> Null, lookup |-> FALSE]

----------------------------------------------------------------------------
(* AdminService.verifyAdmin and AdminController.verifyAdmin *)

\* AdminController.verifyAdmin catch block: service message -> HTTP status and code
VerifyAdminError(res, message) ==
    CASE message = "Invalid email or password" ->
            [res EXCEPT !.status = 401, !.code = "INVALID_CREDENTIALS", !.error = message]
      [] message = "Account is locked" ->
            [res EXCEPT !.status = 423, !.code = "ACCOUNT_LOCKED", !.error = message]
      [] message = "Account is deactivated" ->
            [res EXCEPT !.status = 403, !.code = "ACCOUNT_DEACTIVATED", !.error = message]
      [] OTHER -> [res EXCEPT !.status = 500, !.code = "INTERNAL", !.error = message]

\* the mutant: a call made during a lock counts as a failure and renews the lock
VerifyAdminRenewingLock(store, email, password, t, e) ==
    LET found == FindByEmailWithPassword(store, email)
        res   == [NoResponse EXCEPT !.op = "login", !.reqEmail = email]
    IN  IF found = {}
        THEN [admins |-> store, res |-> VerifyAdminError(res, "Invalid email or password")]
        ELSE LET a   == CHOOSE x \in found : TRUE
                 doc == store[a]
             IN  IF IsLocked(doc, t)
                 THEN [admins |-> UpdateOne(store, a,
                                     [NoUpdate EXCEPT !.incAttempts = 1,
                                                      !.setLock = t + lockTime]),
                       res |-> VerifyAdminError(res, "Account is locked")]
                 ELSE IF ~ComparePassword(password, doc.password)
                 THEN [admins |-> UpdateOne(store, a, IncLoginAttempts(doc, t)),
                       res |-> VerifyAdminError([res EXCEPT !.compared = TRUE],
                                                "Invalid email or password")]
                 ELSE [admins |-> UpdateOne(store, a, ResetLoginAttempts(doc, t)),
                       res |-> [res EXCEPT !.compared = TRUE, !.success = TRUE,
                                           !.status = 200,
                                           !.token = GenerateAuthToken(a, doc, t, e)]]

\* the mutant: the password is compared before the lock is looked at
VerifyAdminCompareFirst(store, email, password, t, e) ==
    LET found == FindByEmailWithPassword(store, email)
        res   == [NoResponse EXCEPT !.op = "login", !.reqEmail = email]
    IN  IF found = {}
        THEN [admins |-> store, res |-> VerifyAdminError(res, "Invalid email or password")]
        ELSE LET a   == CHOOSE x \in found : TRUE
                 doc == store[a]
             IN  IF ~ComparePassword(password, doc.password)
                 THEN [admins |-> UpdateOne(store, a, IncLoginAttempts(doc, t)),
                       res |-> VerifyAdminError([res EXCEPT !.compared = TRUE],
                                                "Invalid email or password")]
                 ELSE [admins |-> UpdateOne(store, a, ResetLoginAttempts(doc, t)),
                       res |-> [res EXCEPT !.compared = TRUE, !.success = TRUE,
                                           !.status = 200,
                                           !.token = GenerateAuthToken(a, doc, t, e)]]

\* the mutant: an unknown email is answered with a message of its own
VerifyAdminRevealing(store, email, password, t, e) ==
    LET found == FindByEmailWithPassword(store, email)
        res   == [NoResponse EXCEPT !.op = "login", !.reqEmail = email]
    IN  IF found = {}
        THEN [admins |-> store,
              res |-> [res EXCEPT !.status = 404, !.code = "ADMIN_NOT_FOUND",
                                  !.error = "Admin not found"]]
        ELSE LET a   == CHOOSE x \in found : TRUE
                 doc == store[a]
             IN  IF IsLocked(doc, t)
                 THEN [admins |-> store, res |-> VerifyAdminError(res, "Account is locked")]
                 ELSE IF ~doc.isActive
                 THEN [admins |-> store,
                       res |-> VerifyAdminError(res, "Account is deactivated")]
                 ELSE IF ~ComparePassword(password, doc.password)
                 THEN [admins |-> UpdateOne(store, a, IncLoginAttempts(doc, t)),
                       res |-> VerifyAdminError([res EXCEPT !.compared = TRUE],
                                                "Invalid email or password")]
                 ELSE [admins |-> UpdateOne(store, a, ResetLoginAttempts(doc, t)),
                       res |-> [res EXCEPT !.compared = TRUE, !.success = TRUE,
                                           !.status = 200,
                                           !.token = GenerateAuthToken(a, doc, t, e)]]

\* AdminService.verifyAdmin(email, password) at time t, and the controller's response
VerifyAdmin(store, email, password, t, e) ==
    LET found == FindByEmailWithPassword(store, email)
        res   == [NoResponse EXCEPT !.op = "login", !.reqEmail = email]
    IN  IF found = {}
        THEN [admins |-> store, res |-> VerifyAdminError(res, "Invalid email or password")]
        ELSE LET a   == CHOOSE x \in found : TRUE
                 doc == store[a]
             IN  IF IsLocked(doc, t)
                 THEN [admins |-> store, res |-> VerifyAdminError(res, "Account is locked")]
                 ELSE IF ~doc.isActive
                 THEN [admins |-> store,
                       res |-> VerifyAdminError(res, "Account is deactivated")]
                 ELSE IF ~ComparePassword(password, doc.password)
                 THEN [admins |-> UpdateOne(store, a, IncLoginAttempts(doc, t)),
                       res |-> VerifyAdminError([res EXCEPT !.compared = TRUE],
                                                "Invalid email or password")]
                 ELSE [admins |-> UpdateOne(store, a, ResetLoginAttempts(doc, t)),
                       res |-> [res EXCEPT !.compared = TRUE, !.success = TRUE,
                                           !.status = 200,
                                           !.token = GenerateAuthToken(a, doc, t, e)]]

\* wrong-password logins in a row for the account the call found
NextWrongRun(run, store, email, res) ==
    LET found == FindByEmailWithPassword(store, email)
    IN  IF found = {} THEN run
        ELSE LET a == CHOOSE x \in found : TRUE
             IN  IF res.compared /\ ~res.success
                 THEN [run EXCEPT ![a] = IF store[a].loginAttempts = 0 THEN 1
                                         ELSE IF @ > 0 THEN @ + 1 ELSE 0]
                 ELSE [run EXCEPT ![a] = 0]

\* wrong-password comparisons for the account the call found, since its last
\* successful login; maxAttempts + 1 stands for every larger number
NextFailedSince(run, store, email, res) ==
    LET found == FindByEmailWithPassword(store, email)
    IN  IF found = {} THEN run
        ELSE LET a == CHOOSE x \in found : TRUE
             IN  IF res.success THEN [run EXCEPT ![a] = 0]
                 ELSE IF res.compared
                 THEN [run EXCEPT ![a] = IF @ > maxAttempts THEN @ ELSE @ + 1]
                 ELSE run

\* AdminController.verifyAdmin behind its validators: the body is well formed
Login(email, password) ==
    LET r == VerifyAdmin(admins, email, password, now, env)
    IN  /\ admins' = r.admins
        /\ last' = r.res
        /\ jwts' = IF r.res.success THEN Hold(jwts, r.res.token) ELSE jwts
        /\ wrongRun' = NextWrongRun(wrongRun, admins, email, r.res)
        /\ failedSince' = NextFailedSince(failedSince, admins, email, r.res)
        /\ UNCHANGED <<now, env, libTokens, appInfos, reqs, authAttempts>>

----------------------------------------------------------------------------
(* AdminService.deactivateAdmin / reactivateAdmin *)

\* AdminService.deactivateAdmin(adminId)
DeactivateAdmin(a) ==
    /\ a \in DOMAIN admins
    /\ admins[a].isActive
    /\ admins' = [admins EXCEPT ![a].isActive = FALSE]
    /\ last' = [NoResponse EXCEPT !.op = "deactivateAdmin", !.success = TRUE,
                                  !.status = 200, !.target = a]
    /\ wrongRun' = [wrongRun EXCEPT ![a] = 0]
    /\ UNCHANGED <<now, env, libTokens, appInfos, jwts, reqs, failedSince, authAttempts>>

\* AdminService.reactivateAdmin(adminId)
ReactivateAdmin(a) ==
    /\ a \in DOMAIN admins
    /\ ~admins[a].isActive
    /\ admins' = [admins EXCEPT ![a].isActive = TRUE, ![a].loginAttempts = 0,
                                ![a].lockUntil = Null]
    /\ last' = [NoResponse EXCEPT !.op = "reactivateAdmin", !.success = TRUE,
                                  !.status = 200, !.target = a]
    /\ wrongRun' = [wrongRun EXCEPT ![a] = 0]
    /\ failedSince' = [failedSince EXCEPT ![a] = 0]
    /\ UNCHANGED <<now, env, libTokens, appInfos, jwts, reqs, authAttempts>>

----------------------------------------------------------------------------
(* Admin request gating: middleware authenticateAdmin *)

\* the mutant: a gate that trusts the signature and never looks at the kind tag
GateAdminAnyKind(tok, store, t, e) ==
    LET v   == JwtVerify(tok, JwtSecret(e), t)
        res == [NoResponse EXCEPT !.op = "authenticateAdmin", !.input = tok]
    IN  IF v = "JsonWebTokenError"
        THEN [res EXCEPT !.status = 401, !.code = "INVALID_TOKEN"]
        ELSE IF v = "TokenExpiredError"
        THEN [res EXCEPT !.status = 401, !.code = "TOKEN_EXPIRED"]
        ELSE [res EXCEPT !.success = TRUE, !.status = 200, !.adminId = ObjectId(tok.id)]

\* the mutant: a gate that never reads isLocked
GateAdminIgnoringLock(tok, store, t, e) ==
    LET v   == JwtVerify(tok, JwtSecret(e), t)
        res == [NoResponse EXCEPT !.op = "authenticateAdmin", !.input = tok]
    IN  IF v = "JsonWebTokenError"
        THEN [res EXCEPT !.status = 401, !.code = "INVALID_TOKEN"]
        ELSE IF v = "TokenExpiredError"
        THEN [res EXCEPT !.status = 401, !.code = "TOKEN_EXPIRED"]
        ELSE IF tok.type # "admin"
        THEN [res EXCEPT !.status = 403, !.code = "INVALID_TOKEN_TYPE"]
        ELSE IF tok.id \notin DOMAIN store
        THEN [res EXCEPT !.status = 401, !.code = "ADMIN_NOT_FOUND"]
        ELSE IF ~store[tok.id].isActive
        THEN [res EXCEPT !.status = 401, !.code = "ADMIN_DEACTIVATED"]
        ELSE [res EXCEPT !.success = TRUE, !.status = 200, !.adminId = ObjectId(tok.id)]

\* authenticateAdmin(req, res, next): success means next() ran with req.adminId set
GateAdmin(tok, store, t, e) ==
    LET v   == JwtVerify(tok, JwtSecret(e), t)
        res == [NoResponse EXCEPT !.op = "authenticateAdmin", !.input = tok]
    IN  IF v = "JsonWebTokenError"
        THEN [res EXCEPT !.status = 401, !.code = "INVALID_TOKEN"]
        ELSE IF v = "TokenExpiredError"
        THEN [res EXCEPT !.status = 401, !.code = "TOKEN_EXPIRED"]
        ELSE IF tok.type # "admin"
        THEN [res EXCEPT !.status = 403, !.code = "INVALID_TOKEN_TYPE"]
        ELSE IF tok.id \notin DOMAIN store
        THEN [res EXCEPT !.status = 401, !.code = "ADMIN_NOT_FOUND"]
        ELSE IF ~store[tok.id].isActive
        THEN [res EXCEPT !.status = 401, !.code = "ADMIN_DEACTIVATED"]
        ELSE IF IsLocked(store[tok.id], t)
        THEN [res EXCEPT !.status = 423, !.code = "ADMIN_LOCKED"]
        ELSE [res EXCEPT !.success = TRUE, !.status = 200, !.adminId = ObjectId(tok.id)]

\* a request on an admin route, stopped or let through by the gate
AuthenticateAdmin(tok) ==
    /\ last' = GateAdmin(tok, admins, now, env)
    /\ UNCHANGED <<now, env, admins, libTokens, appInfos, jwts, reqs,
                   wrongRun, failedSince, authAttempts>>

----------------------------------------------------------------------------
(* The clock *)

TickHour ==
    /\ now + HourMs <= MaxHours * HourMs
    /\ now' = now + HourMs
    /\ UNCHANGED <<env, admins, libTokens, appInfos, jwts, reqs, last,
                   wrongRun, failedSince, authAttempts>>

----------------------------------------------------------------------------
(* Specification of the administrator side: logins one after another *)

EmptyStore == [x \in {} |-> Null]

Init ==
    /\ now = 0
    /\ env = [JWT_SECRET |-> Unset, JWT_REFRESH_SECRET |-> Unset]
    /\ admins = [a \in AdminIds |-> NewAdmin(a)]
    /\ libTokens = EmptyStore
    /\ appInfos = EmptyStore
    /\ jwts = {}
    /\ reqs = EmptyStore
    /\ last = NoResponse
    /\ wrongRun = [a \in AdminIds |-> 0]
    /\ failedSince = [a \in AdminIds |-> 0]
    /\ authAttempts = EmptyStore

Next ==
    \/ \E email \in LoginEmails, password \in LoginPasswords : Login(email, password)
    \/ \E tok \in jwts : AuthenticateAdmin(tok)
    \/ TickHour

Spec == Init /\ [][Next]_vars

----------------------------------------------------------------------------
(* LibraryToken model: src/models/LibraryToken.js *)

HexDigits ==
    <<"0", "1", "2", "3", "4", "5", "6", "7", "8", "9", "a", "b", "c", "d", "e", "f">>

HexChars == {HexDigits[i] : i \in 1..16}

\* the mutant: a hex encoding in upper case
ToHexUpper(buf) ==
    LET up == <<"0", "1", "2", "3", "4", "5", "6", "7", "8", "9",
                "A", "B", "C", "D", "E", "F">>
    IN  [i \in 1..(2 * Len(buf)) |->
            IF i % 2 = 1 THEN up[(buf[(i + 1) \div 2] \div 16) + 1]
            ELSE up[(buf[(i + 1) \div 2] % 16) + 1]]

\* Buffer.toString("hex"): two lower-case hex digits per byte
ToHex(buf) ==
    [i \in 1..(2 * Len(buf)) |->
        IF i % 2 = 1 THEN HexDigits[(buf[(i + 1) \div 2] \div 16) + 1]
        ELSE HexDigits[(buf[(i + 1) \div 2] % 16) + 1]]

\* crypto.randomBytes(16): the generator's outcomes, cut down to a few buffers so that
\* two draws can collide
RandomByteCount == 16

RandomBytes == {[i \in 1..RandomByteCount |-> b] : b \in {10, 171}}

TokenLength == 32

\* /^[a-f0-9]{32}$/.test(s)
TokenFormatOk(s) == Len(s) = TokenLength /\ \A i \in 1..Len(s) : s[i] \in HexChars

\* new LibraryToken({token, createdBy, validity}) saved at time t: the schema defaults,
\* the createdAt timestamp, and the pre-save hook that lower-cases the token
NewLibraryToken(token, createdBy, validity, t) ==
    [token |-> ToLowerCase(token), createdBy |-> createdBy, validity |-> validity,
     isActive |-> TRUE, usageCount |-> 0, lastUsed |-> Null, createdAt |-> t]

\* findOne({token}) / statics.findByToken: the ids of the documents with that value
FindByToken(store, token) == {id \in DOMAIN store : store[id].token = token}

\* the _id of the next inserted document
NextId(store) == Cardinality(DOMAIN store) + 1

\* the mutant: a collection without the unique index on token
InsertLibraryTokenNoIndex(store, doc) ==
    IF ~TokenFormatOk(doc.token)
    THEN [ok |-> FALSE, error |-> "ValidationError", store |-> store, id |-> Null]
    ELSE [ok |-> TRUE, error |-> "", id |-> NextId(store),
          store |-> [id \in DOMAIN store \cup {NextId(store)} |->
                        IF id \in DOMAIN store THEN store[id] ELSE doc]]

\* libraryToken.save() of a new document: schema validation (match), then the insert,
\* which the unique index on token rejects with E11000 when the value is stored already
InsertLibraryToken(store, doc) ==
    IF ~TokenFormatOk(doc.token)
    THEN [ok |-> FALSE, error |-> "ValidationError", store |-> store, id |-> Null]
    ELSE IF FindByToken(store, doc.token) # {}
    THEN [ok |-> FALSE, error |-> "E11000 duplicate key", store |-> store, id |-> Null]
    ELSE [ok |-> TRUE, error |-> "", id |-> NextId(store),
          store |-> [id \in DOMAIN store \cup {NextId(store)} |->
                        IF id \in DOMAIN store THEN store[id] ELSE doc]]

\* virtual isExpired
IsExpired(doc, t) == t > doc.validity

\* virtual isValid
IsValid(doc, t) == doc.isActive /\ ~IsExpired(doc, t)

\* statics.findValidTokens filter: {isActive: true, validity: {$gt: new Date()}}
FindValidTokens(store, t) ==
    {id \in DOMAIN store : store[id].isActive /\ store[id].validity > t}

\* methods.deactivate: this.isActive = false; save() writes the modified path
SaveDeactivate(store, id) ==
    IF id \notin DOMAIN store THEN store
    ELSE [store EXCEPT ![id].isActive = FALSE]

\* the mutant: an atomic $inc of the stored counter
SaveUsageAtomic(store, id, doc, t) ==
    IF id \notin DOMAIN store THEN store
    ELSE [store EXCEPT ![id].usageCount = @ + 1, ![id].lastUsed = t]

\* methods.recordUsage on the document read earlier: this.usageCount += 1; lastUsed = now;
\* save() sends $set of the two modified paths, computed from the copy in memory
SaveUsage(store, id, doc, t) ==
    IF id \notin DOMAIN store THEN store
    ELSE [store EXCEPT ![id].usageCount = doc.usageCount + 1, ![id].lastUsed = t]

----------------------------------------------------------------------------
(* AdminService.generateLibraryToken and statics.generateUniqueToken *)

maxTokenAttempts == 10

\* validityDays a caller may send to the service
ValidityInputs == 0..MaxValidityDays

\* the mutant: the validity is counted in hours
ValidityHours(t, validityDays) == t + validityDays * HourMs

\* validity = new Date(); validity.setDate(validity.getDate() + validityDays)
ValidityDate(t, validityDays) == t + validityDays * DayMs

IssueRequests == 1..MaxIssueRequests

NewRequest == [op |-> "none", pc |-> "new"]

\* generateLibraryToken up to its first await on generateUniqueToken: Admin.findById,
\* the active check, the validityDays check, the validity date
IssueStart(r, a, validityDays) ==
    /\ reqs[r].pc = "new"
    /\ LET res == [NoResponse EXCEPT !.op = "generateLibraryToken", !.target = a]
           fail(msg) == [op |-> "issue", pc |-> "done", res |-> [res EXCEPT !.error = msg]]
       IN  reqs' = [reqs EXCEPT ![r] =
              IF a \notin DOMAIN admins THEN fail("Admin not found")
              ELSE IF ~admins[a].isActive THEN fail("Admin account is deactivated")
              ELSE IF validityDays <= 0 \/ validityDays > 365
              THEN fail("Validity days must be between 1 and 365")
              ELSE [op |-> "issue", pc |-> "generate", createdBy |-> a,
                    validity |-> ValidityDate(now, validityDays), attempts |-> 0,
                    token |-> Undefined, res |-> res]]
    /\ UNCHANGED <<now, env, admins, libTokens, appInfos, jwts, last,
                   wrongRun, failedSince, authAttempts>>

\* the mutant: the loop takes its first draw without the findOne
IssueGenerateUnchecked(r) ==
    /\ reqs[r].pc = "generate"
    /\ reqs[r].attempts < maxTokenAttempts
    /\ \E buf \in RandomBytes :
          reqs' = [reqs EXCEPT ![r] = [@ EXCEPT !.pc = "save", !.token = ToHex(buf),
                                               !.attempts = reqs[r].attempts + 1]]
    /\ UNCHANGED <<now, env, admins, libTokens, appInfos, jwts, last,
                   wrongRun, failedSince, authAttempts>>

\* one turn of the while loop of generateUniqueToken: draw, findOne({token}), count;
\* the loop ends with a unique candidate or, after maxAttempts draws, with an error
IssueGenerate(r) ==
    /\ reqs[r].pc = "generate"
    /\ reqs[r].attempts < maxTokenAttempts
    /\ \E buf \in RandomBytes :
          LET token    == ToHex(buf)
              isUnique == FindByToken(libTokens, token) = {}
              attempts == reqs[r].attempts + 1
          IN  reqs' = [reqs EXCEPT ![r] =
                 IF isUnique
                 THEN [@ EXCEPT !.pc = "save", !.token = token, !.attempts = attempts]
                 ELSE IF attempts < maxTokenAttempts
                 THEN [@ EXCEPT !.token = token, !.attempts = attempts]
                 ELSE [@ EXCEPT !.pc = "done", !.token = token, !.attempts = attempts,
                                !.res.error =
                                    "Failed to generate unique token after maximum attempts"]]
    /\ UNCHANGED <<now, env, admins, libTokens, appInfos, jwts, last,
                   wrongRun, failedSince, authAttempts>>

\* new LibraryToken({...}); await libraryToken.save(); the response
IssueSave(r) ==
    /\ reqs[r].pc = "save"
    /\ LET ins == InsertLibraryToken(libTokens,
                      NewLibraryToken(reqs[r].token, reqs[r].createdBy, reqs[r].validity,
                                      now))
       IN  /\ libTokens' = ins.store
           /\ reqs' = [reqs EXCEPT ![r] =
                 IF ins.ok
                 THEN [@ EXCEPT !.pc = "done", !.res.success = TRUE, !.res.status = 201,
                                !.res.target = ins.id]
                 ELSE [@ EXCEPT !.pc = "done", !.res.error = ins.error]]
    /\ UNCHANGED <<now, env, admins, appInfos, jwts, last,
                   wrongRun, failedSince, authAttempts>>

----------------------------------------------------------------------------
(* AdminService.deactivateLibraryToken, its controller and its route *)

\* AdminController.deactivateLibraryToken catch block
DeactivateTokenError(res, message) ==
    CASE message = "Library token not found" ->
            [res EXCEPT !.status = 404, !.code = "TOKEN_NOT_FOUND", !.error = message]
      [] message = "Only the token creator can deactivate this token" ->
            [res EXCEPT !.status = 403, !.code = "INSUFFICIENT_PERMISSIONS",
                        !.error = message]
      [] message = "Token is already deactivated" ->
            [res EXCEPT !.status = 400, !.code = "TOKEN_ALREADY_DEACTIVATED",
                        !.error = message]
      [] OTHER -> [res EXCEPT !.status = 500, !.code = "INTERNAL", !.error = message]

\* AdminService.deactivateLibraryToken(tokenId, adminId): adminId is the JavaScript
\* value the caller passes, compared with !== against createdBy._id.toString()
DeactivateLibraryToken(store, adminStore, tokenId, adminId) ==
    LET res == [NoResponse EXCEPT !.op = "deactivateLibraryToken", !.target = tokenId,
                                  !.adminId = adminId]
    IN  IF tokenId \notin DOMAIN store
        THEN [libTokens |-> store,
              res |-> DeactivateTokenError(res, "Library token not found")]
        ELSE IF store[tokenId].createdBy \notin DOMAIN adminStore
        THEN [libTokens |-> store, res |-> DeactivateTokenError(res, "TypeError")]
        ELSE IF IdToString(ObjectId(store[tokenId].createdBy)) # adminId
        THEN [libTokens |-> store,
              res |-> DeactivateTokenError(res,
                          "Only the token creator can deactivate this token")]
        ELSE IF ~store[tokenId].isActive
        THEN [libTokens |-> store,
              res |-> DeactivateTokenError(res, "Token is already deactivated")]
        ELSE [libTokens |-> SaveDeactivate(store, tokenId),
              res |-> [res EXCEPT !.success = TRUE, !.status = 200]]

\* PUT /api/admin/library-token/:id/deactivate: authenticateAdmin, then the controller
\* calls the service with req.adminId, the ObjectId the gate stored
DeactivateLibraryTokenRoute(tok, tokenId) ==
    LET gate == GateAdmin(tok, admins, now, env)
        r    == DeactivateLibraryToken(libTokens, admins, tokenId, gate.adminId)
    IN  /\ libTokens' = IF gate.success THEN r.libTokens ELSE libTokens
        /\ last' = IF gate.success THEN [r.res EXCEPT !.input = tok] ELSE gate
        /\ UNCHANGED <<now, env, admins, appInfos, jwts, reqs,
                       wrongRun, failedSince, authAttempts>>

\* AdminService.deactivateLibraryToken called with the administrator's id as a string,
\* as its signature documents (@param {string} adminId)
DeactivateLibraryTokenCall(a, tokenId) ==
    LET r == DeactivateLibraryToken(libTokens, admins, tokenId, IdString(a))
    IN  /\ libTokens' = r.libTokens
        /\ last' = r.res
        /\ UNCHANGED <<now, env, admins, appInfos, jwts, reqs,
                       wrongRun, failedSince, authAttempts>>

----------------------------------------------------------------------------
(* Specification of overlapping issuance *)

InitIssue ==
    /\ now = 0
    /\ env = [JWT_SECRET |-> Unset, JWT_REFRESH_SECRET |-> Unset]
    /\ admins = [a \in AdminIds |-> NewAdmin(a)]
    /\ libTokens = EmptyStore
    /\ appInfos = EmptyStore
    /\ jwts = {}
    /\ reqs = [r \in IssueRequests |-> NewRequest]
    /\ last = NoResponse
    /\ wrongRun = [a \in AdminIds |-> 0]
    /\ failedSince = [a \in AdminIds |-> 0]
    /\ authAttempts = EmptyStore

NextIssue ==
    \/ \E r \in IssueRequests, v \in 0..1 : IssueStart(r, 1, v)
    \/ \E r \in IssueRequests : IssueGenerate(r)
    \/ \E r \in IssueRequests : IssueSave(r)
    \/ \E a \in AdminIds, id \in DOMAIN libTokens : DeactivateLibraryTokenCall(a, id)

SpecIssue == InitIssue /\ [][NextIssue]_vars

----------------------------------------------------------------------------
(* AppInfo model: src/models/AppInfo.js *)

\* String.prototype.trim on a sequence of characters
RECURSIVE TrimLeft(_)
TrimLeft(s) ==
    IF s # <<>> /\ Head(s) = " " THEN TrimLeft(Tail(s)) ELSE s

RECURSIVE TrimRight(_)
TrimRight(s) ==
    IF s # <<>> /\ s[Len(s)] = " " THEN TrimRight(SubSeq(s, 1, Len(s) - 1)) ELSE s

Trim(s) == TrimRight(TrimLeft(s))

DigitChars == {"0", "1", "2", "3", "4", "5", "6", "7", "8", "9"}

\* [a-zA-Z0-9] over the alphabet the inputs are written in
AlnumChars == DigitChars \cup HexChars \cup UpperCase \cup {"v", "x", "z"}

\* the positions right after a non-empty run of characters of cs that starts at i
RunEnds(s, i, cs) ==
    {j \in (i + 1)..(Len(s) + 1) : \A k \in i..(j - 1) : s[k] \in cs}

\* an optional group  \d+\.  matched from each position of ps
OptionalNumberDot(s, ps) ==
    ps \cup {j + 1 : j \in {e \in UNION {RunEnds(s, i, DigitChars) : i \in ps} :
                                e <= Len(s) /\ s[e] = "."}}

\* /^(\d+\.)?(\d+\.)?(\*|\d+)(-[a-zA-Z0-9]+)?$/.test(s)
VersionFormatOk(s) ==
    LET p2 == OptionalNumberDot(s, OptionalNumberDot(s, {1}))
        p3 == {i + 1 : i \in {k \in p2 : k <= Len(s) /\ s[k] = "*"}}
                \cup UNION {RunEnds(s, i, DigitChars) : i \in p2}
        p4 == p3 \cup UNION {RunEnds(s, i + 1, AlnumChars) :
                                i \in {k \in p3 : k <= Len(s) /\ s[k] = "-"}}
    IN  (Len(s) + 1) \in p4

\* new AppInfo({appName, version, libraryToken}) with the schema defaults
NewAppInfo(appName, version, libraryToken, t) ==
    [appName |-> Trim(appName), version |-> Trim(version),
     libraryToken |-> libraryToken, lastAuthAt |-> t, authCount |-> 1,
     isActive |-> TRUE]

\* the mutant: the query without isActive: true
FindOneAppInfoAnyState(store, appName, version, libraryToken) ==
    LET found == {id \in DOMAIN store :
                    /\ store[id].appName = appName
                    /\ store[id].version = version
                    /\ store[id].libraryToken = libraryToken}
    IN  IF found = {} THEN Null
        ELSE CHOOSE id \in found : \A other \in found : id <= other

\* findOne({appName, version, libraryToken, isActive: true}): the first match
FindOneAppInfo(store, appName, version, libraryToken) ==
    LET found == {id \in DOMAIN store :
                    /\ store[id].appName = appName
                    /\ store[id].version = version
                    /\ store[id].libraryToken = libraryToken
                    /\ store[id].isActive}
    IN  IF found = {} THEN Null
        ELSE CHOOSE id \in found : \A other \in found : id <= other

\* lastAuthAt = new Date(); authCount += 1; save(): $set of the two paths,
\* computed from the document as it was loaded
SaveAuth(store, id, doc, t) ==
    [store EXCEPT ![id].lastAuthAt = t,
                  ![id].authCount = doc.authCount + 1]

\* save() of a new document: no unique index covers the tuple
InsertAppInfo(store, doc) ==
    [i \in DOMAIN store \cup {NextId(store)} |->
        IF i \in DOMAIN store THEN store[i] ELSE doc]

\* AppInfo.prototype.deactivate
SaveDeactivateAppInfo(store, id) == [store EXCEPT ![id].isActive = FALSE]

----------------------------------------------------------------------------
(* Device Exchange: DeviceController.authenticateDevice and                *)
(* DeviceService.authenticateDevice                                        *)

\* req.body.appInfo; given = FALSE is a body without the field
AppInput(appName, version) == [given |-> TRUE, appName |-> appName, version |-> version]

NoAppInput == [given |-> FALSE, appName |-> Undefined, version |-> Undefined]

\* the validators of POST /device/auth and handleValidationErrors; "" when the
\* body passes
RouteCheck(token, app) ==
    IF \/ ~TokenFormatOk(token)
       \/ ~app.given
       \/ Len(Trim(app.appName)) < 2 \/ Len(Trim(app.appName)) > 100
       \/ ~VersionFormatOk(Trim(app.version))
    THEN "VALIDATION_ERROR"
    ELSE ""

\* the controller's input validation, in its order; "" when the input passes
ControllerCheck(token, app) ==
    IF token = Undefined THEN "MISSING_TOKEN"
    ELSE IF ~app.given THEN "MISSING_APP_INFO"
    ELSE IF app.appName = Undefined \/ app.version = Undefined THEN "MISSING_APP_DETAILS"
    ELSE IF ~TokenFormatOk(token) THEN "INVALID_TOKEN_FORMAT"
    ELSE IF Len(Trim(app.appName)) < 2 THEN "INVALID_APP_NAME"
    ELSE IF ~VersionFormatOk(Trim(app.version)) THEN "INVALID_VERSION_FORMAT"
    ELSE ""

\* the service's input validation; "" when the input passes
ServiceCheck(token, app) ==
    IF token = Undefined THEN "Library token is required"
    ELSE IF ~app.given \/ app.appName = Undefined \/ app.version = Undefined
    THEN "App name and version are required"
    ELSE IF ~TokenFormatOk(token) THEN "Invalid token format"
    ELSE ""

\* findByToken and the three checks on its result; "" when the token passes
LookupError(store, token, t) ==
    LET ids == FindByToken(store, token)
        doc == store[CHOOSE id \in ids : TRUE]
    IN  IF ids = {} THEN "Invalid library token"
        ELSE IF ~doc.isActive THEN "Library token is deactivated"
        ELSE IF IsExpired(doc, t) THEN "Library token has expired"
        ELSE ""

\* the controller's responses to its own validation failures
ExchangeBadRequest(res, code) == [res EXCEPT !.status = 400, !.code = code]

\* the controller's catch block: service message -> HTTP status and code
ExchangeError(res, message) ==
    CASE message = "Library token is required" ->
            [res EXCEPT !.status = 400, !.code = "MISSING_TOKEN", !.error = message]
      [] message = "App name and version are required" ->
            [res EXCEPT !.status = 400, !.code = "MISSING_APP_DETAILS", !.error = message]
      [] message = "Invalid token format" ->
            [res EXCEPT !.status = 400, !.code = "INVALID_TOKEN_FORMAT", !.error = message]
      [] message = "Invalid library token" ->
            [res EXCEPT !.status = 401, !.code = "INVALID_TOKEN", !.error = message]
      [] message = "Library token is deactivated" ->
            [res EXCEPT !.status = 401, !.code = "TOKEN_DEACTIVATED", !.error = message]
      [] message = "Library token has expired" ->
            [res EXCEPT !.status = 401, !.code = "TOKEN_EXPIRED", !.error = message]
      [] OTHER -> [res EXCEPT !.status = 500, !.code = "INTERNAL", !.error = message]

\* generateDeviceToken(payload)
GenerateDeviceToken(appInfoId, appName, version, libraryToken, t, e) ==
    JwtSign([NoJwt EXCEPT !.type = "device", !.iat = NowSeconds(t),
                          !.appInfoId = appInfoId, !.appName = appName,
                          !.version = version, !.libraryToken = libraryToken],
            JwtSecret(e), DeviceTtl, "device")

\* the mutant: a refresh token that lives one day
GenerateRefreshTokenOneDay(appInfoId, appName, version, t, e) ==
    JwtSign([NoJwt EXCEPT !.type = "refresh", !.iat = NowSeconds(t),
                          !.appInfoId = appInfoId, !.appName = appName,
                          !.version = version, !.hasDeviceToken = TRUE],
            JwtRefreshSecret(e), 24 * 60 * 60, "device")

\* generateRefreshToken(payload): the payload carries the device token, no library token
GenerateRefreshToken(appInfoId, appName, version, t, e) ==
    JwtSign([NoJwt EXCEPT !.type = "refresh", !.iat = NowSeconds(t),
                          !.appInfoId = appInfoId, !.appName = appName,
                          !.version = version, !.hasDeviceToken = TRUE],
            JwtRefreshSecret(e), RefreshTtl, "device")

\* the mutant: the tokens that were signed go out with the error as well
ExchangeResultPartial(res, appInfoId, appName, version, token, ownerFound, t, e) ==
    LET out == IF ownerFound
               THEN [res EXCEPT !.success = TRUE, !.status = 200]
               ELSE ExchangeError(res, "Cannot read properties of null")
    IN  [out EXCEPT !.target = appInfoId,
            !.token = GenerateDeviceToken(appInfoId, appName, version, token, t, e),
            !.refreshToken = GenerateRefreshToken(appInfoId, appName, version, t, e)]

\* the result object: the two tokens, then tokenInfo, which reads
\* libraryToken.createdBy.email of the populated owner (null when the owner is gone)
ExchangeResult(res, appInfoId, appName, version, token, ownerFound, t, e) ==
    IF ~ownerFound
    THEN ExchangeError(res, "Cannot read properties of null")
    ELSE [res EXCEPT !.success = TRUE, !.status = 200, !.target = appInfoId,
            !.token = GenerateDeviceToken(appInfoId, appName, version, token, t, e),
            !.refreshToken = GenerateRefreshToken(appInfoId, appName, version, t, e)]

\* AppInfo.findOrCreate as one step: the new store and the id of the record
FindOrCreate(store, appName, version, libraryToken, t) ==
    LET id == FindOneAppInfo(store, appName, version, libraryToken)
    IN  IF id # Null
        THEN [store |-> SaveAuth(store, id, store[id], t), id |-> id]
        ELSE [store |-> InsertAppInfo(store, NewAppInfo(appName, version, libraryToken, t)),
              id |-> NextId(store)]

\* the mutant: the service is reached without the validation of the route and
\* of the controller
AuthenticateDeviceUnvalidated(libStore, appStore, adminStore, token, app, t, e) ==
    LET res     == [NoResponse EXCEPT !.op = "exchange", !.reqToken = token]
        looked  == [res EXCEPT !.lookup = TRUE]
        bad     == ""
        tok     == ToLowerCase(token)
        appName == Trim(app.appName)
        version == Trim(app.version)
        invalid == ServiceCheck(tok, AppInput(appName, version))
        missing == LookupError(libStore, tok, t)
        id      == CHOOSE i \in FindByToken(libStore, tok) : TRUE
        used    == SaveUsage(libStore, id, libStore[id], t)
        saved   == FindOrCreate(appStore, appName, version, tok, t)
        keep    == [libTokens |-> libStore, appInfos |-> appStore]
    IN  IF bad # "" THEN keep @@ [res |-> ExchangeBadRequest(res, bad)]
        ELSE IF invalid # "" THEN keep @@ [res |-> ExchangeError(res, invalid)]
        ELSE IF missing # "" THEN keep @@ [res |-> ExchangeError(looked, missing)]
        ELSE [libTokens |-> used, appInfos |-> saved.store,
              res |-> ExchangeResult(looked, saved.id, appName, version, tok,
                                     libStore[id].createdBy \in DOMAIN adminStore, t, e)]

\* POST /device/auth as a whole, with no other request in between: route
\* validators, controller, service
AuthenticateDevice(libStore, appStore, adminStore, token, app, t, e) ==
    LET res     == [NoResponse EXCEPT !.op = "exchange", !.reqToken = token]
        looked  == [res EXCEPT !.lookup = TRUE]
        route   == RouteCheck(token, app)
        bad     == IF route # "" THEN route ELSE ControllerCheck(token, app)
        tok     == ToLowerCase(token)
        appName == Trim(app.appName)
        version == Trim(app.version)
        invalid == ServiceCheck(tok, AppInput(appName, version))
        missing == LookupError(libStore, tok, t)
        id      == CHOOSE i \in FindByToken(libStore, tok) : TRUE
        used    == SaveUsage(libStore, id, libStore[id], t)
        saved   == FindOrCreate(appStore, appName, version, tok, t)
        keep    == [libTokens |-> libStore, appInfos |-> appStore]
    IN  IF bad # "" THEN keep @@ [res |-> ExchangeBadRequest(res, bad)]
        ELSE IF invalid # "" THEN keep @@ [res |-> ExchangeError(res, invalid)]
        ELSE IF missing # "" THEN keep @@ [res |-> ExchangeError(looked, missing)]
        ELSE [libTokens |-> used, appInfos |-> saved.store,
              res |-> ExchangeResult(looked, saved.id, appName, version, tok,
                                     libStore[id].createdBy \in DOMAIN adminStore, t, e)]

----------------------------------------------------------------------------
(* Overlapping exchanges: one step per store operation the handler awaits  *)

Requests == 1..MaxRequests

\* the route's and the controller's input validation, findByToken and the checks on
\* the loaded document; recordUsage then changes the loaded document and starts its save
ExchangeLookup(r, token, app) ==
    LET res     == [NoResponse EXCEPT !.op = "exchange", !.reqToken = token]
        route   == RouteCheck(token, app)
        bad     == IF route # "" THEN route ELSE ControllerCheck(token, app)
        tok     == ToLowerCase(token)
        appName == Trim(app.appName)
        version == Trim(app.version)
        invalid == ServiceCheck(tok, AppInput(appName, version))
        missing == LookupError(libTokens, tok, now)
        id      == CHOOSE i \in FindByToken(libTokens, tok) : TRUE
        looked  == [res EXCEPT !.lookup = TRUE]
        failed  == IF bad # "" THEN ExchangeBadRequest(res, bad)
                   ELSE IF invalid # "" THEN ExchangeError(res, invalid)
                   ELSE ExchangeError(looked, missing)
    IN  /\ reqs[r].pc = "new"
        /\ IF bad # "" \/ invalid # "" \/ missing # ""
           THEN reqs' = [reqs EXCEPT ![r] =
                    [op |-> "exchange", pc |-> "done", passed |-> FALSE, res |-> failed]]
           ELSE reqs' = [reqs EXCEPT ![r] =
                    [op |-> "exchange", pc |-> "recordUsage", passed |-> TRUE,
                     token |-> tok, appName |-> appName, version |-> version,
                     libId |-> id, libDoc |-> libTokens[id], usedAt |-> now,
                     ownerFound |-> libTokens[id].createdBy \in DOMAIN admins,
                     res |-> looked]]
        /\ UNCHANGED <<now, env, admins, libTokens, appInfos, jwts, last,
                       wrongRun, failedSince, authAttempts>>

\* the save of recordUsage reaches the store; findOrCreate's findOne is sent
ExchangeRecordUsage(r) ==
    /\ reqs[r].pc = "recordUsage"
    /\ libTokens' = SaveUsage(libTokens, reqs[r].libId, reqs[r].libDoc, reqs[r].usedAt)
    /\ reqs' = [reqs EXCEPT ![r].pc = "findAppInfo"]
    /\ UNCHANGED <<now, env, admins, appInfos, jwts, last,
                   wrongRun, failedSince, authAttempts>>

\* findOne answers; the update or the new document is prepared and its save sent
ExchangeFindAppInfo(r) ==
    LET id == FindOneAppInfo(appInfos, reqs[r].appName, reqs[r].version, reqs[r].token)
    IN  /\ reqs[r].pc = "findAppInfo"
        /\ reqs' = [reqs EXCEPT ![r] =
                [field \in DOMAIN reqs[r] \cup {"appId", "appDoc", "authAt"} |->
                    CASE field = "pc" -> "saveAppInfo"
                      [] field = "appId" -> id
                      [] field = "appDoc" -> IF id = Null THEN Null ELSE appInfos[id]
                      [] field = "authAt" -> now
                      [] OTHER -> reqs[r][field]]]
        /\ UNCHANGED <<now, env, admins, libTokens, appInfos, jwts, last,
                       wrongRun, failedSince, authAttempts>>

\* the save reaches the store; the tokens are signed and the response sent
ExchangeSaveAppInfo(r) ==
    LET q  == reqs[r]
        id == IF q.appId # Null THEN q.appId ELSE NextId(appInfos)
    IN  /\ q.pc = "saveAppInfo"
        /\ appInfos' =
              IF q.appId # Null
              THEN SaveAuth(appInfos, q.appId, q.appDoc, q.authAt)
              ELSE InsertAppInfo(appInfos,
                       NewAppInfo(q.appName, q.version, q.token, q.authAt))
        /\ reqs' = [reqs EXCEPT ![r].pc = "done",
                                ![r].res = ExchangeResult(q.res, id, q.appName, q.version,
                                               q.token, q.ownerFound, now, env)]
        /\ UNCHANGED <<now, env, admins, libTokens, jwts, last,
                       wrongRun, failedSince, authAttempts>>

\* the library-token values and app tuples the devices send
IssuedToken == ToHex([i \in 1..RandomByteCount |-> 10])

UnknownToken == ToHex([i \in 1..RandomByteCount |-> 171])

FirstApp == AppInput(<<"a", "p">>, <<"1", ".", "0">>)

SecondApp == AppInput(<<"a", "p">>, <<"2">>)

InitExchange ==
    /\ now = 0
    /\ env = [JWT_SECRET |-> Unset, JWT_REFRESH_SECRET |-> Unset]
    /\ admins = [a \in AdminIds |-> NewAdmin(a)]
    /\ libTokens = InsertLibraryToken(EmptyStore,
                       NewLibraryToken(IssuedToken, 1, ValidityDate(0, 1), 0)).store
    /\ appInfos = EmptyStore
    /\ jwts = {}
    /\ reqs = [r \in Requests |-> NewRequest]
    /\ last = NoResponse
    /\ wrongRun = [a \in AdminIds |-> 0]
    /\ failedSince = [a \in AdminIds |-> 0]
    /\ authAttempts = EmptyStore

NextExchange ==
    \/ \E r \in Requests, token \in {IssuedToken, UnknownToken},
          app \in {FirstApp, SecondApp} : ExchangeLookup(r, token, app)
    \/ \E r \in Requests : ExchangeRecordUsage(r)
    \/ \E r \in Requests : ExchangeFindAppInfo(r)
    \/ \E r \in Requests : ExchangeSaveAppInfo(r)
    \/ \E id \in DOMAIN libTokens : DeactivateLibraryTokenCall(1, id)

SpecExchange == InitExchange /\ [][NextExchange]_vars

----------------------------------------------------------------------------
(* Issuance with no other request in between                               *)

\* what the loop of generateUniqueToken can return when nothing else touches the
\* store: any candidate that is absent, or Undefined (the error after maxAttempts
\* draws) when some candidate is present and every draw hit a stored value
GenerateUniqueTokenOutcomes(store) ==
    LET candidates == {ToHex(buf) : buf \in RandomBytes}
        present    == {c \in candidates : FindByToken(store, c) # {}}
    IN  (candidates \ present) \cup (IF present = {} THEN {} ELSE {Undefined})

\* AdminController.generateLibraryToken catch block
GenerateTokenError(res, message) ==
    CASE message = "Admin not found" ->
            [res EXCEPT !.status = 404, !.code = "ADMIN_NOT_FOUND", !.error = message]
      [] message = "Admin account is deactivated" ->
            [res EXCEPT !.status = 403, !.code = "ACCOUNT_DEACTIVATED", !.error = message]
      [] message = "Validity days must be between 1 and 365" ->
            [res EXCEPT !.status = 400, !.code = "INVALID_VALIDITY_DAYS",
                        !.error = message]
      [] message = "Failed to generate unique token after maximum attempts" ->
            [res EXCEPT !.status = 500, !.code = "TOKEN_GENERATION_FAILED",
                        !.error = message]
      [] OTHER -> [res EXCEPT !.status = 500, !.code = "INTERNAL", !.error = message]

\* the mutant: the lower end of the validityDays check is off by one
GenerateLibraryTokenFromZero(store, adminStore, a, validityDays, t, candidate) ==
    LET res == [NoResponse EXCEPT !.op = "generateLibraryToken",
                                  !.adminId = ObjectId(a), !.reqDays = validityDays]
        ins == InsertLibraryToken(store,
                   NewLibraryToken(candidate, a, ValidityDate(t, validityDays), t))
        fail(message) == [libTokens |-> store, res |-> GenerateTokenError(res, message)]
    IN  IF a \notin DOMAIN adminStore THEN fail("Admin not found")
        ELSE IF ~adminStore[a].isActive THEN fail("Admin account is deactivated")
        ELSE IF validityDays < 0 \/ validityDays > 365
        THEN fail("Validity days must be between 1 and 365")
        ELSE IF candidate = Undefined
        THEN fail("Failed to generate unique token after maximum attempts")
        ELSE IF ~ins.ok THEN fail(ins.error)
        ELSE [libTokens |-> ins.store,
              res |-> [res EXCEPT !.success = TRUE, !.status = 201, !.target = ins.id]]

\* AdminService.generateLibraryToken(adminId, {validityDays}) at time t, where
\* candidate is what generateUniqueToken returned
GenerateLibraryToken(store, adminStore, a, validityDays, t, candidate) ==
    LET res == [NoResponse EXCEPT !.op = "generateLibraryToken",
                                  !.adminId = ObjectId(a), !.reqDays = validityDays]
        ins == InsertLibraryToken(store,
                   NewLibraryToken(candidate, a, ValidityDate(t, validityDays), t))
        fail(message) == [libTokens |-> store, res |-> GenerateTokenError(res, message)]
    IN  IF a \notin DOMAIN adminStore THEN fail("Admin not found")
        ELSE IF ~adminStore[a].isActive THEN fail("Admin account is deactivated")
        ELSE IF validityDays <= 0 \/ validityDays > 365
        THEN fail("Validity days must be between 1 and 365")
        ELSE IF candidate = Undefined
        THEN fail("Failed to generate unique token after maximum attempts")
        ELSE IF ~ins.ok THEN fail(ins.error)
        ELSE [libTokens |-> ins.store,
              res |-> [res EXCEPT !.success = TRUE, !.status = 201, !.target = ins.id]]

\* POST /api/admin/library-token: authenticateAdmin, the validator
\* isInt({min: 1, max: 365}), then the controller (its own validityDays check skips
\* a falsy value), which calls the service with req.adminId
GenerateLibraryTokenRoute(tok, validityDays) ==
    LET gate == GateAdmin(tok, admins, now, env)
        bad  == \/ validityDays < 1 \/ validityDays > 365
                \/ validityDays # 0 /\ (validityDays <= 0 \/ validityDays > 365)
    IN  \E candidate \in GenerateUniqueTokenOutcomes(libTokens) :
           LET r == GenerateLibraryToken(libTokens, admins, gate.adminId.hex,
                                         validityDays, now, candidate)
           IN  /\ libTokens' = IF gate.success /\ ~bad THEN r.libTokens ELSE libTokens
               /\ last' = IF ~gate.success THEN [gate EXCEPT !.reqDays = validityDays]
                          ELSE IF bad
                          THEN [NoResponse EXCEPT !.op = "generateLibraryToken",
                                    !.status = 400, !.input = tok,
                                    !.reqDays = validityDays,
                                    !.code = IF validityDays < 1 \/ validityDays > 365
                                             THEN "VALIDATION_ERROR"
                                             ELSE "INVALID_VALIDITY_DAYS"]
                          ELSE [r.res EXCEPT !.input = tok]
               /\ UNCHANGED <<now, env, admins, appInfos, jwts, reqs,
                              wrongRun, failedSince, authAttempts>>

----------------------------------------------------------------------------
(* Exchange, refresh and device request gating, one request at a time     *)

\* POST /api/device/auth; the device keeps the token pair it is given
ExchangeDevice(token, app) ==
    LET r == AuthenticateDevice(libTokens, appInfos, admins, token, app, now, env)
    IN  /\ libTokens' = r.libTokens
        /\ appInfos' = r.appInfos
        /\ last' = r.res
        /\ jwts' = IF r.res.success
                   THEN Hold(Hold(jwts, r.res.token), r.res.refreshToken)
                   ELSE jwts
        /\ UNCHANGED <<now, env, admins, reqs, wrongRun, failedSince, authAttempts>>

\* the mutant: refresh looks the AppInfo up and refuses a deactivated one
GenerateNewAccessTokenChecked(tok, appStore, t, e) ==
    LET res == [NoResponse EXCEPT !.op = "refresh", !.input = tok]
        bad == [res EXCEPT !.status = 401, !.code = "INVALID_REFRESH_TOKEN",
                           !.error = "Invalid or expired refresh token"]
    IN  IF JwtVerify(tok, JwtRefreshSecret(e), t) # "ok" THEN bad
        ELSE IF tok.type # "refresh" THEN bad
        ELSE IF tok.appInfoId \notin DOMAIN appStore THEN bad
        ELSE IF ~appStore[tok.appInfoId].isActive THEN bad
        ELSE [res EXCEPT !.success = TRUE, !.status = 200, !.target = tok.appInfoId,
                 !.token = GenerateDeviceToken(tok.appInfoId, tok.appName, tok.version,
                                               tok.libraryToken, t, e)]

\* the mutant: the catch block passes on the message of the error it caught
GenerateNewAccessTokenDistinct(tok, appStore, t, e) ==
    LET res == [NoResponse EXCEPT !.op = "refresh", !.input = tok]
        bad(message) == [res EXCEPT !.status = 401, !.code = "INVALID_REFRESH_TOKEN",
                                    !.error = message]
        v   == JwtVerify(tok, JwtRefreshSecret(e), t)
    IN  IF tok = MissingJwt THEN bad("Refresh token is required")
        ELSE IF v # "ok" THEN bad(v)
        ELSE IF tok.type # "refresh" THEN bad("Invalid token type")
        ELSE [res EXCEPT !.success = TRUE, !.status = 200, !.target = tok.appInfoId,
                 !.token = GenerateDeviceToken(tok.appInfoId, tok.appName, tok.version,
                                               tok.libraryToken, t, e)]

\* DeviceService.generateNewAccessToken(refreshToken): every failure, the missing
\* token included, is rethrown as "Invalid or expired refresh token"; no store
\* is read
GenerateNewAccessToken(tok, appStore, t, e) ==
    LET res == [NoResponse EXCEPT !.op = "refresh", !.input = tok]
        bad == [res EXCEPT !.status = 401, !.code = "INVALID_REFRESH_TOKEN",
                           !.error = "Invalid or expired refresh token"]
    IN  IF tok = MissingJwt THEN bad
        ELSE IF JwtVerify(tok, JwtRefreshSecret(e), t) # "ok" THEN bad
        ELSE IF tok.type # "refresh" THEN bad
        ELSE [res EXCEPT !.success = TRUE, !.status = 200, !.target = tok.appInfoId,
                 !.token = GenerateDeviceToken(tok.appInfoId, tok.appName, tok.version,
                                               tok.libraryToken, t, e)]

\* the mutant: a refresh that records an authentication on the AppInfo
RefreshAccessRecording(tok) ==
    LET res == IF tok = MissingJwt
               THEN [NoResponse EXCEPT !.op = "refresh", !.input = tok, !.status = 400,
                                       !.code = "VALIDATION_ERROR",
                                       !.error = "Validation failed"]
               ELSE GenerateNewAccessToken(tok, appInfos, now, env)
    IN  /\ last' = res
        /\ jwts' = IF res.success THEN Hold(jwts, res.token) ELSE jwts
        /\ appInfos' = IF res.success /\ tok.appInfoId \in DOMAIN appInfos
                       THEN SaveAuth(appInfos, tok.appInfoId, appInfos[tok.appInfoId], now)
                       ELSE appInfos
        /\ UNCHANGED <<now, env, admins, libTokens, reqs,
                       wrongRun, failedSince, authAttempts>>

\* POST /api/device/refresh-token: the validator body("refreshToken").isString(),
\* then the service; the device keeps the new access token
RefreshAccess(tok) ==
    LET res == IF tok = MissingJwt
               THEN [NoResponse EXCEPT !.op = "refresh", !.input = tok, !.status = 400,
                                       !.code = "VALIDATION_ERROR",
                                       !.error = "Validation failed"]
               ELSE GenerateNewAccessToken(tok, appInfos, now, env)
    IN  /\ last' = res
        /\ jwts' = IF res.success THEN Hold(jwts, res.token) ELSE jwts
        /\ UNCHANGED <<now, env, admins, libTokens, appInfos, reqs,
                       wrongRun, failedSince, authAttempts>>

\* DeviceService.verifyDeviceToken(token): every failure is rethrown as
\* "Invalid or expired device token"
VerifyDeviceToken(tok, t, e) ==
    LET res == [NoResponse EXCEPT !.op = "verifyDeviceToken", !.input = tok]
    IN  IF JwtVerify(tok, JwtSecret(e), t) # "ok" \/ tok.type # "device"
        THEN [res EXCEPT !.error = "Invalid or expired device token"]
        ELSE [res EXCEPT !.success = TRUE, !.target = tok.appInfoId]

\* the mutant: a device gate that trusts the signature and never looks at the kind
GateDeviceAnyKind(tok, appStore, t, e) ==
    LET v   == JwtVerify(tok, JwtSecret(e), t)
        res == [NoResponse EXCEPT !.op = "authenticateDevice", !.input = tok]
    IN  IF v = "JsonWebTokenError"
        THEN [res EXCEPT !.status = 401, !.code = "INVALID_DEVICE_TOKEN"]
        ELSE IF v = "TokenExpiredError"
        THEN [res EXCEPT !.status = 401, !.code = "DEVICE_TOKEN_EXPIRED"]
        ELSE IF tok.appInfoId \notin DOMAIN appStore
        THEN [res EXCEPT !.status = 401, !.code = "APP_INFO_NOT_FOUND"]
        ELSE IF ~appStore[tok.appInfoId].isActive
        THEN [res EXCEPT !.status = 401, !.code = "APP_DEACTIVATED"]
        ELSE [res EXCEPT !.success = TRUE, !.status = 200, !.target = tok.appInfoId]

\* the mutant: a device gate that finds the AppInfo and never reads isActive
GateDeviceIgnoringActive(tok, appStore, t, e) ==
    LET v   == JwtVerify(tok, JwtSecret(e), t)
        res == [NoResponse EXCEPT !.op = "authenticateDevice", !.input = tok]
    IN  IF v = "JsonWebTokenError"
        THEN [res EXCEPT !.status = 401, !.code = "INVALID_DEVICE_TOKEN"]
        ELSE IF v = "TokenExpiredError"
        THEN [res EXCEPT !.status = 401, !.code = "DEVICE_TOKEN_EXPIRED"]
        ELSE IF tok.type # "device"
        THEN [res EXCEPT !.status = 403, !.code = "INVALID_TOKEN_TYPE"]
        ELSE IF tok.appInfoId \notin DOMAIN appStore
        THEN [res EXCEPT !.status = 401, !.code = "APP_INFO_NOT_FOUND"]
        ELSE [res EXCEPT !.success = TRUE, !.status = 200, !.target = tok.appInfoId]

\* middleware authenticateDevice up to req.device: success means the request goes on
GateDevice(tok, appStore, t, e) ==
    LET v   == JwtVerify(tok, JwtSecret(e), t)
        res == [NoResponse EXCEPT !.op = "authenticateDevice", !.input = tok]
    IN  IF v = "JsonWebTokenError"
        THEN [res EXCEPT !.status = 401, !.code = "INVALID_DEVICE_TOKEN"]
        ELSE IF v = "TokenExpiredError"
        THEN [res EXCEPT !.status = 401, !.code = "DEVICE_TOKEN_EXPIRED"]
        ELSE IF tok.type # "device"
        THEN [res EXCEPT !.status = 403, !.code = "INVALID_TOKEN_TYPE"]
        ELSE IF tok.appInfoId \notin DOMAIN appStore
        THEN [res EXCEPT !.status = 401, !.code = "APP_INFO_NOT_FOUND"]
        ELSE IF ~appStore[tok.appInfoId].isActive
        THEN [res EXCEPT !.status = 401, !.code = "APP_DEACTIVATED"]
        ELSE [res EXCEPT !.success = TRUE, !.status = 200, !.target = tok.appInfoId]

\* a request on a device route: the gate, then appInfo.recordAuth() before next()
AuthenticateDeviceGate(tok) ==
    LET res == GateDevice(tok, appInfos, now, env)
    IN  /\ last' = res
        /\ appInfos' = IF res.success
                       THEN SaveAuth(appInfos, res.target, appInfos[res.target], now)
                       ELSE appInfos
        /\ UNCHANGED <<now, env, admins, libTokens, jwts, reqs,
                       wrongRun, failedSince, authAttempts>>

\* AppInfo.prototype.deactivate on a stored record
DeactivateAppInfo(id) ==
    /\ appInfos[id].isActive
    /\ appInfos' = SaveDeactivateAppInfo(appInfos, id)
    /\ last' = [NoResponse EXCEPT !.op = "deactivateAppInfo", !.success = TRUE,
                                  !.target = id]
    /\ UNCHANGED <<now, env, admins, libTokens, jwts, reqs,
                   wrongRun, failedSince, authAttempts>>

TickHalfDay ==
    /\ now + 12 * HourMs <= MaxHalfDays * 12 * HourMs
    /\ now' = now + 12 * HourMs
    /\ UNCHANGED <<env, admins, libTokens, appInfos, jwts, reqs, last,
                   wrongRun, failedSince, authAttempts>>

----------------------------------------------------------------------------
(* Specification of the library-token life cycle: issue, exchange,         *)
(* deactivate and the clock, one request at a time                         *)

\* the administrators' store and the token each holds after logging in at time 0
LoggedIn(store, a, e) == VerifyAdmin(store, EmailOf(a), PasswordOf(a), 0, e)

AllLoggedIn(e) ==
    LoggedIn(LoggedIn([a \in AdminIds |-> NewAdmin(a)], 1, e).admins, 2, e).admins

\* the step keeps every stored counter within the bounds of the model
CountersWithinBounds(maxUsage) ==
    /\ \A id \in DOMAIN libTokens' : libTokens'[id].usageCount <= maxUsage
    /\ \A id \in DOMAIN appInfos' : appInfos'[id].authCount <= MaxAuth

InitToken ==
    /\ now = 0
    /\ env = [JWT_SECRET |-> Unset, JWT_REFRESH_SECRET |-> Unset]
    /\ admins = AllLoggedIn(env)
    /\ libTokens = EmptyStore
    /\ appInfos = EmptyStore
    /\ jwts = {LoggedIn(AllLoggedIn(env), a, env).res.token : a \in AdminIds}
    /\ reqs = EmptyStore
    /\ last = NoResponse
    /\ wrongRun = [a \in AdminIds |-> 0]
    /\ failedSince = [a \in AdminIds |-> 0]
    /\ authAttempts = EmptyStore

NextToken ==
    \/ \E tok \in jwts, validityDays \in ValidityInputs :
          /\ Cardinality(DOMAIN libTokens) < MaxTokens
          /\ GenerateLibraryTokenRoute(tok, validityDays)
    \/ \E tok \in jwts, id \in DOMAIN libTokens : DeactivateLibraryTokenRoute(tok, id)
    \/ \E a \in AdminIds, id \in DOMAIN libTokens : DeactivateLibraryTokenCall(a, id)
    \/ \E token \in {IssuedToken, UnknownToken} :
          ExchangeDevice(token, FirstApp) /\ CountersWithinBounds(MaxUsage)
    \/ TickHalfDay

SpecToken == InitToken /\ [][NextToken]_vars

----------------------------------------------------------------------------
(* Specification of a device session: exchange, refresh, the two gates,    *)
(* deactivations and the clock, one request at a time                      *)

InitSession ==
    /\ now = 0
    /\ env \in Envs
    /\ admins = LoggedIn([a \in AdminIds |-> NewAdmin(a)], 1, env).admins
    /\ libTokens = GenerateLibraryToken(EmptyStore, admins, 1, 1, 0, IssuedToken).libTokens
    /\ appInfos = EmptyStore
    /\ jwts = {LoggedIn([a \in AdminIds |-> NewAdmin(a)], 1, env).res.token}
    /\ reqs = EmptyStore
    /\ last = NoResponse
    /\ wrongRun = [a \in AdminIds |-> 0]
    /\ failedSince = [a \in AdminIds |-> 0]
    /\ authAttempts = EmptyStore

NextSession ==
    \/ ExchangeDevice(IssuedToken, FirstApp) /\ CountersWithinBounds(MaxSessionExchanges)
    \/ \E tok \in jwts : RefreshAccess(tok)
    \/ \E tok \in jwts :
          AuthenticateDeviceGate(tok) /\ CountersWithinBounds(MaxSessionExchanges)
    \/ \E tok \in jwts : AuthenticateAdmin(tok)
    \/ \E id \in DOMAIN appInfos : DeactivateAppInfo(id)
    \/ \E id \in DOMAIN libTokens : DeactivateLibraryTokenCall(1, id)
    \/ TickHalfDay

SpecSession == InitSession /\ [][NextSession]_vars

(* Administrator accounts: deletion, and issuance by the service alone     *)

\* AdminController.deleteAdmin catch block
DeleteAdminError(res, message) ==
    CASE message = "Password is incorrect" ->
            [res EXCEPT !.status = 400, !.code = "INCORRECT_PASSWORD", !.error = message]
      [] message = "Admin not found" ->
            [res EXCEPT !.status = 404, !.code = "ADMIN_NOT_FOUND", !.error = message]
      [] OTHER -> [res EXCEPT !.status = 500, !.code = "INTERNAL", !.error = message]

\* AdminService.deleteAdmin(adminId, password): findById, comparePassword,
\* Admin.deleteOne({_id: adminId}); no other collection is read or written
DeleteAdmin(store, a, password) ==
    LET res == [NoResponse EXCEPT !.op = "deleteAdmin", !.target = a]
    IN  IF a \notin DOMAIN store
        THEN [admins |-> store, res |-> DeleteAdminError(res, "Admin not found")]
        ELSE IF ~ComparePassword(password, store[a].password)
        THEN [admins |-> store,
              res |-> DeleteAdminError([res EXCEPT !.compared = TRUE],
                                       "Password is incorrect")]
        ELSE [admins |-> [x \in DOMAIN store \ {a} |-> store[x]],
              res |-> [res EXCEPT !.compared = TRUE, !.success = TRUE, !.status = 200]]

\* values a caller may send as the confirmation field
Confirmations == {"DELETE", "delete"}

\* DELETE /api/admin/account: authenticateAdmin, the validators (every password
\* of the model has at least 6 characters; confirmation equals "DELETE"), then
\* the controller, which calls the service with req.adminId
DeleteAdminRoute(tok, password, confirmation) ==
    LET gate == GateAdmin(tok, admins, now, env)
        r    == DeleteAdmin(admins, gate.adminId.hex, password)
        bad  == confirmation # "DELETE"
    IN  /\ admins' = IF gate.success /\ ~bad THEN r.admins ELSE admins
        /\ last' = IF ~gate.success THEN gate
                   ELSE IF bad
                   THEN [NoResponse EXCEPT !.op = "deleteAdmin", !.status = 400,
                                           !.code = "VALIDATION_ERROR", !.input = tok]
                   ELSE [r.res EXCEPT !.input = tok]
        /\ UNCHANGED <<now, env, libTokens, appInfos, jwts, reqs,
                       wrongRun, failedSince, authAttempts>>

\* AdminService.generateLibraryToken(adminId, {validityDays}) called with an id
\* that passed the gate earlier, answered through the controller's catch block
GenerateLibraryTokenCall(a, validityDays) ==
    \E candidate \in GenerateUniqueTokenOutcomes(libTokens) :
       LET r == GenerateLibraryToken(libTokens, admins, a, validityDays, now, candidate)
       IN  /\ libTokens' = r.libTokens
           /\ last' = r.res
           /\ UNCHANGED <<now, env, admins, appInfos, jwts, reqs,
                          wrongRun, failedSince, authAttempts>>

\* validityDays a caller may send: below, inside and above the range of the code
AccountValidityInputs == {-2, 0, 1, MaxAccountValidityDays, 366}

\* emails and passwords sent to the login of the account specification
AccountEmails == {EmailOf(1), <<"c", "@", "e">>}

AccountPasswords == {PasswordOf(1), "wrong00"}

\* half a day passes in the account specification
TickAccount ==
    /\ now + 12 * HourMs <= MaxAccountHalfDays * 12 * HourMs
    /\ now' = now + 12 * HourMs
    /\ UNCHANGED <<env, admins, libTokens, appInfos, jwts, reqs, last,
                   wrongRun, failedSince, authAttempts>>

InitAccount ==
    /\ now = 0
    /\ env = [JWT_SECRET |-> Unset, JWT_REFRESH_SECRET |-> Unset]
    /\ admins = [a \in AdminIds |-> NewAdmin(a)]
    /\ libTokens = GenerateLibraryToken(EmptyStore, admins, 2, 1, 0, UnknownToken).libTokens
    /\ appInfos = EmptyStore
    /\ jwts = {}
    /\ reqs = EmptyStore
    /\ last = NoResponse
    /\ wrongRun = [a \in AdminIds |-> 0]
    /\ failedSince = [a \in AdminIds |-> 0]
    /\ authAttempts = EmptyStore

NextAccount ==
    \/ \E email \in AccountEmails, password \in AccountPasswords : Login(email, password)
    \/ DeactivateAdmin(1)
    \/ ReactivateAdmin(1)
    \/ \E tok \in jwts, password \in AccountPasswords, confirmation \in Confirmations :
          DeleteAdminRoute(tok, password, confirmation)
    \/ \E tok \in jwts, validityDays \in AccountValidityInputs :
          /\ Cardinality(DOMAIN libTokens) < 1 + MaxAccountTokens
          /\ GenerateLibraryTokenRoute(tok, validityDays)
    \/ \E validityDays \in AccountValidityInputs :
          /\ Cardinality(DOMAIN libTokens) < 1 + MaxAccountTokens
          /\ GenerateLibraryTokenCall(1, validityDays)
    \/ TickAccount

SpecAccount == InitAccount /\ [][NextAccount]_vars

----------------------------------------------------------------------------
(* Refresh alone: every kind of token a caller may present, over the days *)

\* DeviceService.generateNewAccessToken(refreshToken) called as a function
GenerateNewAccessTokenCall(tok) ==
    LET res == GenerateNewAccessToken(tok, appInfos, now, env)
    IN  /\ last' = res
        /\ jwts' = IF res.success THEN Hold(jwts, res.token) ELSE jwts
        /\ UNCHANGED <<now, env, admins, libTokens, appInfos, reqs,
                       wrongRun, failedSince, authAttempts>>

TickDay ==
    /\ now + DayMs <= MaxDays * DayMs
    /\ now' = now + DayMs
    /\ UNCHANGED <<env, admins, libTokens, appInfos, jwts, reqs, last,
                   wrongRun, failedSince, authAttempts>>

\* the state after one login, one issuance and one exchange at time 0
FirstExchange(e) ==
    AuthenticateDevice(
        GenerateLibraryToken(EmptyStore, [a \in AdminIds |-> NewAdmin(a)], 1, 1, 0,
                             IssuedToken).libTokens,
        EmptyStore, [a \in AdminIds |-> NewAdmin(a)], IssuedToken, FirstApp, 0, e)

\* what a caller may present: the token pair of the exchange, an admin token, a
\* refresh token signed with another key, a string that is no JWT
PresentedTokens(e) ==
    {FirstExchange(e).res.token, FirstExchange(e).res.refreshToken,
     LoggedIn([a \in AdminIds |-> NewAdmin(a)], 1, e).res.token,
     [FirstExchange(e).res.refreshToken EXCEPT !.key = "forged"],
     NoJwt}

InitRefresh ==
    /\ now = 0
    /\ env \in Envs
    /\ admins = LoggedIn([a \in AdminIds |-> NewAdmin(a)], 1, env).admins
    /\ libTokens = FirstExchange(env).libTokens
    /\ appInfos = FirstExchange(env).appInfos
    /\ jwts = PresentedTokens(env)
    /\ reqs = EmptyStore
    /\ last = NoResponse
    /\ wrongRun = [a \in AdminIds |-> 0]
    /\ failedSince = [a \in AdminIds |-> 0]
    /\ authAttempts = EmptyStore

NextRefresh ==
    \/ \E tok \in jwts \cup {MissingJwt} : RefreshAccess(tok)
    \/ \E tok \in jwts \cup {MissingJwt} : GenerateNewAccessTokenCall(tok)
    \/ TickDay

SpecRefresh == InitRefresh /\ [][NextRefresh]_vars

----------------------------------------------------------------------------
(* Exchange inputs: well-formed and malformed bodies, one request at a time *)

\* token values a caller may send: the issued one, its upper-case spelling, one
\* character short, one character outside [a-f0-9], none at all
ExchangeTokens ==
    {IssuedToken,
     [i \in 1..TokenLength |-> IF IssuedToken[i] = "a" THEN "A" ELSE IssuedToken[i]],
     SubSeq(IssuedToken, 1, TokenLength - 1),
     [IssuedToken EXCEPT ![1] = "g"],
     Undefined}

\* appInfo bodies a caller may send: well-formed (bare and padded with blanks),
\* a one-character name (bare and padded), versions outside the pattern, none
ExchangeApps ==
    {FirstApp,
     AppInput(<<" ", "a", "p", " ">>, <<" ", "1", ".", "0">>),
     AppInput(<<"a">>, <<"1", ".", "0">>),
     AppInput(<<" ", "a", " ">>, <<"1", ".", "0">>),
     AppInput(<<"a", "p">>, <<"v", "1">>),
     AppInput(<<"a", "p">>, <<"1", ".", "0", ".", "0", ".", "1">>),
     NoAppInput}

InitInputs ==
    /\ now = 0
    /\ env = [JWT_SECRET |-> Unset, JWT_REFRESH_SECRET |-> Unset]
    /\ admins = [a \in AdminIds |-> NewAdmin(a)]
    /\ libTokens = GenerateLibraryToken(EmptyStore, admins, 1, 1, 0, IssuedToken).libTokens
    /\ appInfos = EmptyStore
    /\ jwts = {}
    /\ reqs = EmptyStore
    /\ last = NoResponse
    /\ wrongRun = [a \in AdminIds |-> 0]
    /\ failedSince = [a \in AdminIds |-> 0]
    /\ authAttempts = EmptyStore

NextInputs ==
    \/ \E token \in ExchangeTokens, app \in ExchangeApps :
          ExchangeDevice(token, app) /\ CountersWithinBounds(MaxUsage)
    \/ \E id \in DOMAIN libTokens : DeactivateLibraryTokenCall(1, id)
    \/ TickHalfDay

SpecInputs == InitInputs /\ [][NextInputs]_vars

----------------------------------------------------------------------------
(* Overlapping exchanges while the token is deactivated or its owner deleted *)

\* AdminService.deleteAdmin(adminId, password) called with an id that passed
\* the gate earlier
DeleteAdminCall(a, password) ==
    LET r == DeleteAdmin(admins, a, password)
    IN  /\ admins' = r.admins
        /\ last' = r.res
        /\ UNCHANGED <<now, env, libTokens, appInfos, jwts, reqs,
                       wrongRun, failedSince, authAttempts>>

InitOverlap ==
    /\ now = 0
    /\ env = [JWT_SECRET |-> Unset, JWT_REFRESH_SECRET |-> Unset]
    /\ admins = [a \in AdminIds |-> NewAdmin(a)]
    /\ libTokens = InsertLibraryToken(EmptyStore,
                       NewLibraryToken(IssuedToken, 1, ValidityDate(0, 1), 0)).store
    /\ appInfos = EmptyStore
    /\ jwts = {}
    /\ reqs = [r \in 1..MaxOverlap |-> NewRequest]
    /\ last = NoResponse
    /\ wrongRun = [a \in AdminIds |-> 0]
    /\ failedSince = [a \in AdminIds |-> 0]
    /\ authAttempts = EmptyStore

NextOverlap ==
    \/ \E r \in DOMAIN reqs, token \in {IssuedToken, UnknownToken},
          app \in {FirstApp, SecondApp} : ExchangeLookup(r, token, app)
    \/ \E r \in DOMAIN reqs : ExchangeRecordUsage(r)
    \/ \E r \in DOMAIN reqs : ExchangeFindAppInfo(r)
    \/ \E r \in DOMAIN reqs : ExchangeSaveAppInfo(r)
    \/ \E id \in DOMAIN libTokens : DeactivateLibraryTokenCall(1, id)
    \/ \E password \in AccountPasswords : DeleteAdminCall(1, password)

SpecOverlap == InitOverlap /\ [][NextOverlap]_vars

----------------------------------------------------------------------------
(* Admin login behind authRateLimit: POST /api/admin/verify, one step per  *)
(* point where the handler yields                                          *)

\* authRateLimit(5, 15 * 60 * 1000)
maxAuthAttempts == 5

windowMs == 15 * 60 * SecondMs

\* req.ip of the callers
Ips == {"ip1", "ip2"}

\* the clean-up loop: entries with timestamp < windowStart are deleted
CleanAttempts(map, t) ==
    [ip \in {k \in DOMAIN map : ~(map[k].timestamp < t - windowMs)} |-> map[ip]]

\* attempts.get(ip) || {count: 0, timestamp: now}
CurrentAttempts(map, ip, t) ==
    IF ip \in DOMAIN map THEN map[ip] ELSE [count |-> 0, timestamp |-> t]

\* currentAttempts.count >= maxAttempts && currentAttempts.timestamp > windowStart
RateLimited(cur, t) == cur.count >= maxAuthAttempts /\ cur.timestamp > t - windowMs

\* attempts.set(ip, value)
SetAttempts(map, ip, value) ==
    [k \in DOMAIN map \cup {ip} |-> IF k = ip THEN value ELSE map[k]]

\* the calls sent to the rate-limited route: a login that fails (an unknown
\* email) from either address
LimitCalls ==
    {[ip |-> "ip1", email |-> <<"c", "@", "e">>, password |-> "wrong00"],
     [ip |-> "ip2", email |-> <<"c", "@", "e">>, password |-> "wrong00"]}

\* the middleware as the request arrives: clean-up, the check (429 when it
\* fails), else req.recordFailedAuth closes over currentAttempts.count and the
\* time of arrival; the body of every request of the model passes the validators
LoginArrive(r, call) ==
    LET cleaned == CleanAttempts(authAttempts, now)
        cur     == CurrentAttempts(cleaned, call.ip, now)
        res     == [NoResponse EXCEPT !.op = "login", !.reqEmail = call.email]
        q       == [op |-> "login", pc |-> "verify", ip |-> call.ip,
                    email |-> call.email, password |-> call.password,
                    count |-> cur.count,
                    arrivedAt |-> now, reached |-> FALSE, res |-> res]
    IN  /\ reqs[r].pc = "new"
        /\ authAttempts' = cleaned
        /\ reqs' = [reqs EXCEPT ![r] =
                IF RateLimited(cur, now)
                THEN [q EXCEPT !.pc = "done",
                               !.res = [res EXCEPT !.status = 429,
                                                   !.code = "RATE_LIMITED"]]
                ELSE q]
        /\ UNCHANGED <<now, env, admins, libTokens, appInfos, jwts, last,
                       wrongRun, failedSince>>

\* the controller: AdminService.verifyAdmin, and in the catch block
\* req.recordFailedAuth(), which stores the count read at arrival plus one
LoginVerify(r) ==
    LET q == reqs[r]
        v == VerifyAdmin(admins, q.email, q.password, now, env)
    IN  /\ q.pc = "verify"
        /\ admins' = v.admins
        /\ authAttempts' =
              IF v.res.success THEN authAttempts
              ELSE SetAttempts(authAttempts, q.ip,
                               [count |-> q.count + 1, timestamp |-> q.arrivedAt])
        /\ reqs' = [reqs EXCEPT ![r] = [q EXCEPT !.pc = "done", !.reached = TRUE,
                                                 !.res = v.res]]
        /\ jwts' = IF v.res.success THEN Hold(jwts, v.res.token) ELSE jwts
        /\ wrongRun' = NextWrongRun(wrongRun, admins, q.email, v.res)
        /\ failedSince' = NextFailedSince(failedSince, admins, q.email, v.res)
        /\ UNCHANGED <<now, env, libTokens, appInfos, last>>

\* a quarter of an hour passes; a request is answered within milliseconds, so
\* none is in flight across the step
TickQuarter ==
    /\ \A r \in DOMAIN reqs : reqs[r].pc \in {"new", "done"}
    /\ now + windowMs <= MaxLimitTicks * windowMs
    /\ now' = now + windowMs
    /\ UNCHANGED <<env, admins, libTokens, appInfos, jwts, reqs, last,
                   wrongRun, failedSince, authAttempts>>

LoginRequests == 1..MaxLoginRequests

InitLimit ==
    /\ now = 0
    /\ env = [JWT_SECRET |-> Unset, JWT_REFRESH_SECRET |-> Unset]
    /\ admins = [a \in AdminIds |-> NewAdmin(a)]
    /\ libTokens = EmptyStore
    /\ appInfos = EmptyStore
    /\ jwts = {}
    /\ reqs = [r \in LoginRequests |-> NewRequest]
    /\ last = NoResponse
    /\ wrongRun = [a \in AdminIds |-> 0]
    /\ failedSince = [a \in AdminIds |-> 0]
    /\ authAttempts = EmptyStore

\* the requests arrive in the order of their numbers
NextLimit ==
    \/ \E r \in LoginRequests, call \in LimitCalls :
          /\ \A earlier \in 1..(r - 1) : reqs[earlier].pc # "new"
          /\ LoginArrive(r, call)
    \/ \E r \in LoginRequests : LoginVerify(r)
    \/ TickQuarter

SpecLimit == InitLimit /\ [][NextLimit]_vars

----------------------------------------------------------------------------
(* Overlapping logins for one administrator: AdminService.verifyAdmin, one  *)
(* step per store operation it awaits                                      *)

\* findByEmailWithPassword answers; the checks on the loaded document; a call
\* that passes them goes on to comparePassword with the document it loaded
VerifyFind(r, email, password) ==
    LET found == FindByEmailWithPassword(admins, email)
        a     == CHOOSE x \in found : TRUE
        res   == [NoResponse EXCEPT !.op = "login", !.reqEmail = email]
        fail(message) == [op |-> "login", pc |-> "done", compared |-> FALSE,
                          res |-> VerifyAdminError(res, message)]
    IN  /\ reqs[r].pc = "new"
        /\ reqs' = [reqs EXCEPT ![r] =
                IF found = {} THEN fail("Invalid email or password")
                ELSE IF IsLocked(admins[a], now) THEN fail("Account is locked")
                ELSE IF ~admins[a].isActive THEN fail("Account is deactivated")
                ELSE [op |-> "login", pc |-> "compare", compared |-> FALSE,
                      id |-> a, doc |-> admins[a], password |-> password,
                      res |-> res]]
        /\ UNCHANGED <<now, env, admins, libTokens, appInfos, jwts, last,
                       wrongRun, failedSince, authAttempts>>

\* comparePassword answers; incLoginAttempts or resetLoginAttempts builds its
\* update from the loaded document and the store applies it
VerifyCompare(r) ==
    LET q     == reqs[r]
        valid == ComparePassword(q.password, q.doc.password)
        res   == [q.res EXCEPT !.compared = TRUE]
    IN  /\ q.pc = "compare"
        /\ admins' = UpdateOne(admins, q.id,
                         IF valid THEN ResetLoginAttempts(q.doc, now)
                         ELSE IncLoginAttempts(q.doc, now))
        /\ reqs' = [reqs EXCEPT ![r] =
                [q EXCEPT !.pc = "done", !.compared = TRUE,
                          !.res = IF valid
                                  THEN [res EXCEPT !.success = TRUE, !.status = 200,
                                           !.token = GenerateAuthToken(q.id, q.doc,
                                                                       now, env)]
                                  ELSE VerifyAdminError(res,
                                           "Invalid email or password")]]
        /\ failedSince' = [failedSince EXCEPT ![q.id] =
                              IF valid THEN 0
                              ELSE IF @ > maxAttempts THEN @ ELSE @ + 1]
        /\ UNCHANGED <<now, env, libTokens, appInfos, jwts, last, wrongRun,
                       authAttempts>>

InitLogins ==
    /\ now = 0
    /\ env = [JWT_SECRET |-> Unset, JWT_REFRESH_SECRET |-> Unset]
    /\ admins = [a \in AdminIds |-> NewAdmin(a)]
    /\ libTokens = EmptyStore
    /\ appInfos = EmptyStore
    /\ jwts = {}
    /\ reqs = [r \in 1..MaxOverlapLogins |-> NewRequest]
    /\ last = NoResponse
    /\ wrongRun = [a \in AdminIds |-> 0]
    /\ failedSince = [a \in AdminIds |-> 0]
    /\ authAttempts = EmptyStore

\* the calls start in the order of their numbers
NextLogins ==
    \/ \E r \in DOMAIN reqs, password \in AccountPasswords :
          /\ \A earlier \in 1..(r - 1) : reqs[earlier].pc # "new"
          /\ VerifyFind(r, EmailOf(1), password)
    \/ \E r \in DOMAIN reqs : VerifyCompare(r)

SpecLogins == InitLogins /\ [][NextLogins]_vars

----------------------------------------------------------------------------
(* A device session over the days, while its library token is deactivated: *)
(* exchange, refresh, the device gate, one request at a time               *)

\* validityDays of the library token of this specification: longer than the
\* life of a refresh token
LongValidityDays == 10

InitLong ==
    /\ now = 0
    /\ env \in Envs
    /\ admins = [a \in AdminIds |-> NewAdmin(a)]
    /\ libTokens = GenerateLibraryToken(EmptyStore, admins, 1, LongValidityDays, 0,
                                        IssuedToken).libTokens
    /\ appInfos = EmptyStore
    /\ jwts = {}
    /\ reqs = EmptyStore
    /\ last = NoResponse
    /\ wrongRun = [a \in AdminIds |-> 0]
    /\ failedSince = [a \in AdminIds |-> 0]
    /\ authAttempts = EmptyStore

NextLong ==
    \/ ExchangeDevice(IssuedToken, FirstApp) /\ CountersWithinBounds(MaxLongExchanges)
    \/ \E tok \in jwts : RefreshAccess(tok)
    \/ \E tok \in jwts :
          AuthenticateDeviceGate(tok) /\ CountersWithinBounds(MaxLongExchanges)
    \/ \E id \in DOMAIN libTokens : DeactivateLibraryTokenCall(1, id)
    \/ TickDay

SpecLong == InitLong /\ [][NextLong]_vars

----------------------------------------------------------------------------
(* Provisioning of the super admin: scripts/createSuperAdmin.js, runs that *)
(* may overlap. The role path of the Admin schema and the pre-save         *)
(* middleware that enforces the single super admin are those of            *)
(* docs/SUPER_ADMIN.md.                                                    *)

\* an Admin document with its role path: enum admin / superadmin, default admin
AdminWithRole(doc, role) == doc @@ [role |-> role]

\* Admin.find({role: "superadmin"})
SuperAdmins(store) == {a \in DOMAIN store : store[a].role = "superadmin"}

\* what the operator types at the prompts
ProvisionEmails == {EmailOf(1), EmailOf(2), <<"C", "@", "e">>}

ProvisionPassword == "secret2"

ProvisionDone(r, ok, message) ==
    reqs' = [reqs EXCEPT ![r] = [@ EXCEPT !.pc = "done", !.success = ok,
                                          !.error = message]]

\* main up to the prompts: checkExistingSuperAdmin, exit(1) when one exists
ProvisionCheck(r, email) ==
    /\ reqs[r].pc = "new"
    /\ IF SuperAdmins(admins) # {}
       THEN reqs' = [reqs EXCEPT ![r] =
                       [op |-> "provision", pc |-> "done", email |-> email,
                        success |-> FALSE, error |-> "Super admin already exists"]]
       ELSE reqs' = [reqs EXCEPT ![r] =
                       [op |-> "provision", pc |-> "save", email |-> email,
                        success |-> FALSE, error |-> ""]]
    /\ UNCHANGED <<now, env, admins, libTokens, appInfos, jwts, last,
                   wrongRun, failedSince, authAttempts>>

\* superAdmin.save(), its pre-save middleware: the query for another super admin
ProvisionPreSave(r) ==
    /\ reqs[r].pc = "save"
    /\ IF SuperAdmins(admins) # {}
       THEN ProvisionDone(r, FALSE, "Only one super admin is allowed")
       ELSE reqs' = [reqs EXCEPT ![r].pc = "insert"]
    /\ UNCHANGED <<now, env, admins, libTokens, appInfos, jwts, last,
                   wrongRun, failedSince, authAttempts>>

\* superAdmin.save(), the insert: the password hashed by the script is hashed
\* again by the pre-save hook of the model; the email index answers E11000
ProvisionInsert(r) ==
    /\ reqs[r].pc = "insert"
    /\ LET email == ToLowerCase(reqs[r].email)
           doc   == AdminWithRole(
                        [email |-> email,
                         password |-> BcryptHash(BcryptHash(ProvisionPassword)),
                         isActive |-> TRUE, lastLogin |-> Null,
                         loginAttempts |-> 0, lockUntil |-> Null],
                        "superadmin")
       IN  IF \E a \in DOMAIN admins : admins[a].email = email
           THEN /\ ProvisionDone(r, FALSE, "Admin with this email already exists")
                /\ admins' = admins
           ELSE /\ ProvisionDone(r, TRUE, "")
                /\ admins' = admins @@ (NextId(admins) :> doc)
    /\ UNCHANGED <<now, env, libTokens, appInfos, jwts, last,
                   wrongRun, failedSince, authAttempts>>

InitProvision ==
    /\ now = 0
    /\ env = [JWT_SECRET |-> Unset, JWT_REFRESH_SECRET |-> Unset]
    /\ admins = (1 :> AdminWithRole(NewAdmin(1), "admin"))
    /\ libTokens = EmptyStore
    /\ appInfos = EmptyStore
    /\ jwts = {}
    /\ reqs = [r \in 1..MaxProvisionRuns |-> NewRequest]
    /\ last = NoResponse
    /\ wrongRun = [a \in AdminIds |-> 0]
    /\ failedSince = [a \in AdminIds |-> 0]
    /\ authAttempts = EmptyStore

\* the runs start in the order of their numbers
NextProvision ==
    \/ \E r \in DOMAIN reqs, email \in ProvisionEmails :
          /\ \A earlier \in 1..(r - 1) : reqs[earlier].pc # "new"
          /\ ProvisionCheck(r, email)
    \/ \E r \in DOMAIN reqs : ProvisionPreSave(r)
    \/ \E r \in DOMAIN reqs : ProvisionInsert(r)

SpecProvision == InitProvision /\ [][NextProvision]_vars

----------------------------------------------------------------------------
(* App identities: exchanges one after another for several tuples, and     *)
(* AppInfo deactivation                                                    *)

\* the appInfo bodies the devices send: two versions of one app, and the
\* first one padded with blanks
IdentityApps ==
    {FirstApp, SecondApp, AppInput(<<" ", "a", "p", " ">>, <<" ", "1", ".", "0">>)}

InitIdentity ==
    /\ now = 0
    /\ env = [JWT_SECRET |-> Unset, JWT_REFRESH_SECRET |-> Unset]
    /\ admins = [a \in AdminIds |-> NewAdmin(a)]
    /\ libTokens = GenerateLibraryToken(EmptyStore, admins, 1, 1, 0, IssuedToken).libTokens
    /\ appInfos = EmptyStore
    /\ jwts = {}
    /\ reqs = EmptyStore
    /\ last = NoResponse
    /\ wrongRun = [a \in AdminIds |-> 0]
    /\ failedSince = [a \in AdminIds |-> 0]
    /\ authAttempts = EmptyStore

NextIdentity ==
    \/ \E app \in IdentityApps :
          /\ ExchangeDevice(IssuedToken, app)
          /\ CountersWithinBounds(MaxIdentityExchanges)
          /\ Cardinality(DOMAIN appInfos') <= MaxIdentityRecords
    \/ \E id \in DOMAIN appInfos : DeactivateAppInfo(id)

SpecIdentity == InitIdentity /\ [][NextIdentity]_vars

----------------------------------------------------------------------------
(* generateUniqueToken against a store that already holds a token: the      *)
(* draws of the calls may collide with every stored value                  *)

InitDraw ==
    /\ now = 0
    /\ env = [JWT_SECRET |-> Unset, JWT_REFRESH_SECRET |-> Unset]
    /\ admins = [a \in AdminIds |-> NewAdmin(a)]
    /\ libTokens = GenerateLibraryToken(EmptyStore, admins, 1, 1, 0, UnknownToken).libTokens
    /\ appInfos = EmptyStore
    /\ jwts = {}
    /\ reqs = [r \in 1..MaxDrawRequests |-> NewRequest]
    /\ last = NoResponse
    /\ wrongRun = [a \in AdminIds |-> 0]
    /\ failedSince = [a \in AdminIds |-> 0]
    /\ authAttempts = EmptyStore

\* the calls start in the order of their numbers
NextDraw ==
    \/ \E r \in DOMAIN reqs :
          /\ \A earlier \in 1..(r - 1) : reqs[earlier].pc # "new"
          /\ IssueStart(r, 1, 1)
    \/ \E r \in DOMAIN reqs : IssueGenerate(r)
    \/ \E r \in DOMAIN reqs : IssueSave(r)

\* every awaited store operation is answered: a call that can take a step
\* takes one
SpecDraw == InitDraw /\ [][NextDraw]_vars /\ WF_vars(NextDraw)

----------------------------------------------------------------------------
(* A library token and the administrator who issued it: GET                *)
(* /device/validate-token and POST /device/auth while the owner is         *)
(* deactivated, locked or deleted                                          *)

\* DeviceService.validateLibraryToken(token): findByToken populates createdBy,
\* which is null when the owner is gone; the catch block turns every error
\* into {valid: false, reason: error.message}
ValidateLibraryToken(libStore, adminStore, token, t) ==
    LET res == [NoResponse EXCEPT !.op = "validateLibraryToken", !.reqToken = token]
        ids == FindByToken(libStore, token)
        doc == libStore[CHOOSE id \in ids : TRUE]
        invalid(reason) == [res EXCEPT !.status = 401, !.error = reason]
    IN  IF token = Undefined THEN invalid("Library token is required")
        ELSE IF ~TokenFormatOk(token) THEN invalid("Invalid token format")
        ELSE IF ids = {} THEN [invalid("Token not found") EXCEPT !.lookup = TRUE]
        ELSE IF ~doc.isActive
        THEN [invalid("Token is deactivated") EXCEPT !.lookup = TRUE]
        ELSE IF IsExpired(doc, t)
        THEN [invalid("Token has expired") EXCEPT !.lookup = TRUE]
        ELSE IF doc.createdBy \notin DOMAIN adminStore
        THEN [invalid("Cannot read properties of null") EXCEPT !.lookup = TRUE]
        ELSE [res EXCEPT !.success = TRUE, !.status = 200, !.lookup = TRUE,
                         !.target = CHOOSE id \in ids : TRUE]

\* GET /device/validate-token: the query validator, the controller, the service
ValidateToken(token) ==
    /\ last' = IF token = Undefined \/ ~TokenFormatOk(token)
               THEN [NoResponse EXCEPT !.op = "validateLibraryToken",
                                       !.reqToken = token, !.status = 400,
                                       !.code = "VALIDATION_ERROR"]
               ELSE ValidateLibraryToken(libTokens, admins, token, now)
    /\ UNCHANGED <<now, env, admins, libTokens, appInfos, jwts, reqs,
                   wrongRun, failedSince, authAttempts>>

\* the token values the callers send
OwnerTokens == ExchangeTokens \cup {UnknownToken}

InitOwner ==
    /\ now = 0
    /\ env = [JWT_SECRET |-> Unset, JWT_REFRESH_SECRET |-> Unset]
    /\ admins = [a \in AdminIds |-> NewAdmin(a)]
    /\ libTokens = GenerateLibraryToken(EmptyStore, admins, 1, 1, 0, IssuedToken).libTokens
    /\ appInfos = EmptyStore
    /\ jwts = {}
    /\ reqs = EmptyStore
    /\ last = NoResponse
    /\ wrongRun = [a \in AdminIds |-> 0]
    /\ failedSince = [a \in AdminIds |-> 0]
    /\ authAttempts = EmptyStore

NextOwner ==
    \/ \E token \in OwnerTokens : ValidateToken(token)
    \/ \E token \in OwnerTokens :
          ExchangeDevice(token, FirstApp) /\ CountersWithinBounds(MaxOwnerExchanges)
    \/ \E id \in DOMAIN libTokens : DeactivateLibraryTokenCall(1, id)
    \/ DeactivateAdmin(1)
    \/ Login(EmailOf(1), "wrong00")
    \/ DeleteAdminCall(1, PasswordOf(1))
    \/ TickHalfDay

SpecOwner == InitOwner /\ [][NextOwner]_vars

----------------------------------------------------------------------------
(***************************************************************************)
(* Claims                                                                  *)
(***************************************************************************)

\* the spellings of an administrator's email that differ only in letter case
CaseVariants(a) ==
    IF a = 1 THEN {<<"a", "@", "e">>, <<"A", "@", "E">>}
    ELSE {<<"b", "@", "e">>, <<"B", "@", "e">>}

\* C1: five wrong-password logins in a row, starting from 0 failed attempts, lock the
\* account until the time of the fifth failure + 2 hours; every login call made for an
\* account whose lock-until is in the future answers ACCOUNT_LOCKED, compares no
\* password and writes nothing, whatever password it carries.
C1_FiveFailuresLock ==
    [][\A email \in LoginEmails, password \in LoginPasswords :
         (last'.op = "login" /\ last'.reqEmail = email /\ Login(email, password)) =>
           \A a \in FindByEmailWithPassword(admins, email) :
              /\ wrongRun'[a] = 5 =>
                    /\ admins'[a].lockUntil = now + 2 * 60 * 60 * 1000
                    /\ admins'[a].lockUntil > now
              /\ (admins[a].lockUntil # Null /\ admins[a].lockUntil > now) =>
                    /\ last'.code = "ACCOUNT_LOCKED"
                    /\ ~last'.compared
                    /\ ~last'.success
                    /\ admins' = admins]_vars

\* C1 witness: a login was answered ACCOUNT_LOCKED for an account that five failures locked
C1_Witness ==
    /\ last.op = "login"
    /\ last.code = "ACCOUNT_LOCKED"
    /\ \E a \in DOMAIN admins :
          /\ last.reqEmail \in CaseVariants(a)
          /\ admins[a].loginAttempts = 5
          /\ admins[a].lockUntil > now

\* C8: a login with the email of a stored, active, unlocked administrator in any letter
\* case and with its password succeeds, and the token it returns passes admin request
\* gating as kind "admin" and identifies that administrator.
C8_LoginSucceeds ==
    [][\A email \in LoginEmails, password \in LoginPasswords :
         (last'.op = "login" /\ last'.reqEmail = email /\ Login(email, password)) =>
           \A a \in DOMAIN admins :
              ( /\ email \in CaseVariants(a)
                /\ password = PasswordOf(a)
                /\ admins[a].isActive
                /\ ~(admins[a].lockUntil # Null /\ admins[a].lockUntil > now) )
              => /\ last'.success
                 /\ last'.token.type = "admin"
                 /\ last'.token.id = a
                 /\ GateAdmin(last'.token, admins', now', env').success
                 /\ GateAdmin(last'.token, admins', now', env').adminId = ObjectId(a)]_vars

\* C8 witness: an upper-case spelling of the email logged an administrator in and the
\* gate let the returned token through
C8_Witness ==
    /\ last.op = "login"
    /\ last.success
    /\ last.reqEmail = <<"A", "@", "E">>
    /\ last.token.id = 1
    /\ GateAdmin(last.token, admins, now, env).success

\* C9: in every reachable state, overlapping issuance included, no two LibraryToken
\* records hold the same token value, every stored value is exactly 32 characters out
\* of 0-9 and a-f, and no step changes the token value of a stored record.
C9_TokenValuesUniqueHexImmutable ==
    /\ [](\A i, j \in DOMAIN libTokens :
             libTokens[i].token = libTokens[j].token => i = j)
    /\ [](\A i \in DOMAIN libTokens :
             /\ Len(libTokens[i].token) = 32
             /\ \A k \in 1..Len(libTokens[i].token) :
                   libTokens[i].token[k] \in
                       {"0", "1", "2", "3", "4", "5", "6", "7", "8", "9",
                        "a", "b", "c", "d", "e", "f"})
    /\ [][\A i \in DOMAIN libTokens :
             i \in DOMAIN libTokens' /\ libTokens'[i].token = libTokens[i].token]_vars

\* C9 witness: two overlapping issuance calls drew the same value and both passed the
\* uniqueness check; one stored it, the index turned the other away
C9_Witness ==
    \E r1, r2 \in DOMAIN reqs :
        /\ r1 # r2
        /\ reqs[r1].op = "issue" /\ reqs[r2].op = "issue"
        /\ reqs[r1].pc = "done" /\ reqs[r2].pc = "done"
        /\ reqs[r1].res.success
        /\ reqs[r2].res.error = "E11000 duplicate key"
        /\ reqs[r1].token = reqs[r2].token
        /\ \E i \in DOMAIN libTokens : libTokens[i].token = reqs[r1].token

----------------------------------------------------------------------------
\* the exchange requests that passed the lookup step for library token id
PassedLookup(id) ==
    {r \in DOMAIN reqs : reqs[r].op = "exchange" /\ reqs[r].passed /\ reqs[r].libId = id}

\* the exchange requests that passed the lookup step with the tuple of request r
SameTuple(r) ==
    {q \in DOMAIN reqs :
        /\ reqs[q].op = "exchange" /\ reqs[q].passed
        /\ reqs[q].token = reqs[r].token
        /\ reqs[q].appName = reqs[r].appName
        /\ reqs[q].version = reqs[r].version}

\* no exchange is between two of its store operations
Quiescent == \A r \in DOMAIN reqs : reqs[r].pc \in {"new", "done"}

\* C2: when two exchanges with the same valid library token and the same
\* (appName, version) have both completed, however their store operations
\* interleaved, both succeeded and the store holds exactly one AppInfo record
\* for the tuple, with authCount 2.
C2_TwoExchangesOneIdentity ==
    \A r \in DOMAIN reqs :
        (/\ Quiescent
         /\ reqs[r].op = "exchange" /\ reqs[r].passed
         /\ Cardinality(SameTuple(r)) = 2)
        => /\ \A q \in SameTuple(r) : reqs[q].res.success
           /\ LET records == {id \in DOMAIN appInfos :
                                /\ appInfos[id].appName = reqs[r].appName
                                /\ appInfos[id].version = reqs[r].version
                                /\ appInfos[id].libraryToken = reqs[r].token}
              IN  /\ Cardinality(records) = 1
                  /\ \A id \in records : appInfos[id].authCount = 2

\* C10: once N exchanges that passed the lookup step for one library token
\* have completed, in any interleaving, the token's usage counter has grown
\* by exactly N (it starts at 0).
C10_UsageIncrementsNeverLost ==
    Quiescent =>
        \A id \in DOMAIN libTokens :
            libTokens[id].usageCount = Cardinality(PassedLookup(id))

----------------------------------------------------------------------------
\* the token verifies under the key and the clock of the current state
Unexpired(tok, secret) == JwtVerify(tok, secret, now) = "ok"

\* a token of a kind other than the one the endpoint expects is turned away at
\* the admin gate, at the device gate, at refresh and by verifyDeviceToken
WrongKindRejected ==
    \A tok \in jwts :
        /\ (tok.type # "admin" /\ last'.op = "authenticateAdmin" /\ last'.input = tok
              /\ AuthenticateAdmin(tok)) => ~last'.success
        /\ (tok.type # "device" /\ last'.op = "authenticateDevice" /\ last'.input = tok
              /\ AuthenticateDeviceGate(tok)) => ~last'.success /\ appInfos' = appInfos
        /\ (tok.type # "refresh" /\ last'.op = "refresh" /\ last'.input = tok
              /\ RefreshAccess(tok)) => ~last'.success /\ jwts' = jwts
        /\ tok.type # "device" => ~VerifyDeviceToken(tok, now, env).success

C7_RefreshIgnoresRecords ==
    [][\A tok \in jwts :
          (/\ tok.type = "refresh" /\ Unexpired(tok, JwtRefreshSecret(env))
           /\ last'.op = "refresh" /\ last'.input = tok
           /\ RefreshAccess(tok))
          => /\ last'.success
             /\ last'.token.type = "device"
             /\ last'.token.appInfoId = tok.appInfoId
             /\ Unexpired(last'.token, JwtSecret(env))
             /\ last'.token \in jwts'
             /\ libTokens' = libTokens /\ appInfos' = appInfos]_vars

\* a refresh succeeded although the AppInfo named in the token is deactivated and
\* the library token of the exchange is deactivated or past its validity
C7_Witness ==
    /\ last.op = "refresh" /\ last.success
    /\ last.input.appInfoId \in DOMAIN appInfos
    /\ ~appInfos[last.input.appInfoId].isActive
    /\ \A id \in FindByToken(libTokens, appInfos[last.input.appInfoId].libraryToken) :
          ~libTokens[id].isActive \/ now >= libTokens[id].validity
    /\ last.token.appInfoId = last.input.appInfoId

----------------------------------------------------------------------------
\* C4: a library token issued at time T with validityDays = V and never
\* deactivated is valid at every time t with T <= t < T + V days and not valid
\* at any t >= T + V days, the instant T + V days included.
C4_ValidExactlyUntilExpiry ==
    \A id \in DOMAIN libTokens, validityDays \in 1..MaxValidityDays :
        LET doc == libTokens[id]
        IN  (doc.isActive /\ doc.validity = doc.createdAt + validityDays * DayMs)
            => (IsValid(doc, now) <=>
                    (doc.createdAt <= now /\ now < doc.createdAt + validityDays * DayMs))

\* C5: an exchange with a well-formed token value answers InvalidToken exactly
\* when no library token has the value, TokenDeactivated exactly when the record
\* is inactive (expired or not), and TokenExpired exactly when the record is
\* active and the clock is at or past its validity.
C5_LookupErrors ==
    [][\A token \in {IssuedToken, UnknownToken} :
          (last'.op = "exchange" /\ last'.reqToken = token
             /\ ExchangeDevice(token, FirstApp))
          => LET ids == FindByToken(libTokens, token)
             IN  /\ last'.code = "INVALID_TOKEN" <=> ids = {}
                 /\ last'.code = "TOKEN_DEACTIVATED"
                       <=> \E id \in ids : ~libTokens[id].isActive
                 /\ last'.code = "TOKEN_EXPIRED"
                       <=> \E id \in ids : /\ libTokens[id].isActive
                                           /\ now >= libTokens[id].validity]_vars

\* C6: on the deactivation route, with the requesting administrator as the
\* admin gate identified them, a non-owner is refused and the token is left
\* unchanged, the owner of an active token succeeds and the token becomes
\* inactive, and the owner of an inactive token is told it is already inactive.
C6_OwnerDeactivates ==
    [][\A tok \in jwts, id \in DOMAIN libTokens :
          (/\ last'.op = "deactivateLibraryToken"
           /\ last'.input = tok /\ last'.target = id
           /\ DeactivateLibraryTokenRoute(tok, id))
          => IF tok.id # libTokens[id].createdBy
             THEN last'.code = "INSUFFICIENT_PERMISSIONS" /\ libTokens' = libTokens
             ELSE IF libTokens[id].isActive
             THEN last'.success /\ ~libTokens'[id].isActive
             ELSE last'.code = "TOKEN_ALREADY_DEACTIVATED" /\ libTokens' = libTokens]_vars

----------------------------------------------------------------------------
\* C11: the stored usage counter of a library token never decreases: in
\* every step, whichever exchanges and deactivations overlap, each token's
\* stored usageCount is at least its previous stored value.
C11_UsageNeverDecreases ==
    [][\A id \in DOMAIN libTokens :
          libTokens'[id].usageCount >= libTokens[id].usageCount]_vars

----------------------------------------------------------------------------
\* the stored administrators whose email is the one the caller sent
RecordsWithEmail(email) ==
    {a \in DOMAIN admins : admins[a].email = ToLowerCase(email)}

\* C12: a login for an administrator whose record exists but is inactive is
\* answered with "Account is deactivated" (with "Account is locked" if the
\* record is also locked at that moment); no password is compared and no
\* stored record changes.
C12_InactiveLoginDeactivated ==
    [][last'.op = "login" =>
       \A email \in {last'.reqEmail}, password \in AccountPasswords, a \in AdminIds :
          (/\ a \in RecordsWithEmail(email)
           /\ ~admins[a].isActive
           /\ Login(email, password))
          => /\ ~last'.success
             /\ last'.code = IF IsLocked(admins[a], now) THEN "ACCOUNT_LOCKED"
                             ELSE "ACCOUNT_DEACTIVATED"
             /\ ~last'.compared
             /\ admins' = admins]_vars

----------------------------------------------------------------------------
\* what the caller of a login sees of its response
Visible(res) ==
    [success |-> res.success, status |-> res.status, code |-> res.code,
     error |-> res.error, token |-> res.token]

\* C13: a login with an email that matches no administrator is answered with
\* "Invalid email or password" and changes no stored record; a login with a
\* registered email (active, not locked) and a wrong password gets, at the
\* same moment, the very response the unknown-email call would get.
C13_LoginFailuresIndistinguishable ==
    [][last'.op = "login" =>
       \A email \in {last'.reqEmail}, password \in AccountPasswords :
          Login(email, password)
          => /\ RecordsWithEmail(email) = {}
                => /\ last'.status = 401 /\ last'.code = "INVALID_CREDENTIALS"
                   /\ admins' = admins
                   /\ libTokens' = libTokens /\ appInfos' = appInfos
             /\ \A a \in RecordsWithEmail(email), unknown \in AccountEmails :
                   (/\ admins[a].isActive /\ ~IsLocked(admins[a], now)
                    /\ ~ComparePassword(password, admins[a].password)
                    /\ RecordsWithEmail(unknown) = {})
                   => Visible(last')
                        = Visible(VerifyAdmin(admins, unknown, password, now, env).res)
       ]_vars

\* a wrong password for the registered administrator has just been refused,
\* and it was the attempt that locked the account
C13_Witness ==
    /\ last.op = "login" /\ last.reqEmail = EmailOf(1)
    /\ last.compared /\ ~last.success
    /\ 1 \in DOMAIN admins /\ admins[1].lockUntil # Null

----------------------------------------------------------------------------
\* C14: generateNewAccessToken answers every token that fails verification
\* (missing, no JWT, signed with another key, expired, of another kind) with
\* the one error "Invalid or expired refresh token" and returns no access
\* token; the route in front of it hands no access token to a failed call
\* either.
C14_RefreshFailuresUniform ==
    [][\A tok \in jwts \cup {MissingJwt} :
          (/\ last'.op = "refresh" /\ last'.input = tok
           /\ \/ GenerateNewAccessTokenCall(tok)
              \/ RefreshAccess(tok))
          => /\ (tok.type # "refresh" \/ ~Unexpired(tok, JwtRefreshSecret(env)))
                => ~last'.success
             /\ ~last'.success
                => /\ last'.token = NoJwt /\ jwts' = jwts
                   /\ (GenerateNewAccessTokenCall(tok) \/ tok # MissingJwt)
                      => /\ last'.code = "INVALID_REFRESH_TOKEN"
                         /\ last'.error = "Invalid or expired refresh token"
       ]_vars

\* a genuine refresh token has just been refused because its 7 days are over
C14_Witness ==
    /\ last.op = "refresh" /\ ~last.success
    /\ last.code = "INVALID_REFRESH_TOKEN"
    /\ last.input.type = "refresh"
    /\ last.input.key = JwtRefreshSecret(env)
    /\ NowSeconds(now) >= last.input.exp

----------------------------------------------------------------------------
\* the token values of the model that are not 32 characters of [a-f0-9]
MalformedTokens ==
    {token \in ExchangeTokens :
        \/ Len(token) # 32
        \/ \E i \in 1..Len(token) : token[i] \notin HexChars}

\* the bodies whose app name has fewer than 2 characters once blanks are cut
ShortNameApps ==
    {app \in ExchangeApps : app.given /\ Len(Trim(app.appName)) < 2}

\* the bodies whose version is outside the pattern
BadVersionApps ==
    {AppInput(<<"a", "p">>, <<"v", "1">>),
     AppInput(<<"a", "p">>, <<"1", ".", "0", ".", "0", ".", "1">>)}

\* C15: an exchange whose token value is not 32 characters of [a-f0-9], whose
\* app name has fewer than 2 characters, or whose version is outside the
\* version pattern is answered with status 400 before any store access: the
\* library token is not looked up, and no LibraryToken or AppInfo record
\* changes.
C15_MalformedExchangeNoStoreAccess ==
    [][\A token \in ExchangeTokens, app \in ExchangeApps :
          (/\ last'.op = "exchange" /\ last'.reqToken = token
           /\ (token \in MalformedTokens \/ app \in ShortNameApps
               \/ app \in BadVersionApps)
           /\ ExchangeDevice(token, app))
          => /\ ~last'.success /\ last'.status = 400
             /\ ~last'.lookup
             /\ libTokens' = libTokens /\ appInfos' = appInfos
             /\ last'.token = NoJwt /\ last'.refreshToken = NoJwt
       ]_vars

\* a well-formed token with a malformed body has just been refused while the
\* token was usable and had been used before
C15_Witness ==
    /\ last.op = "exchange" /\ last.status = 400
    /\ last.reqToken = IssuedToken
    /\ \E id \in DOMAIN libTokens :
          /\ libTokens[id].token = IssuedToken
          /\ libTokens[id].isActive /\ ~IsExpired(libTokens[id], now)
          /\ libTokens[id].usageCount > 0

----------------------------------------------------------------------------
\* the response of exchange request r hands out a token
HandsOutToken(r) ==
    reqs[r].res.token # NoJwt \/ reqs[r].res.refreshToken # NoJwt

\* C16: an exchange that ends in an error returns neither an access token nor
\* a refresh token; a response carries tokens only when the request is over
\* and succeeded, after its lookup passed, its usage was recorded on the
\* library token and its AppInfo record was saved.
C16_TokensOnlyAfterAllSteps ==
    \A r \in DOMAIN reqs :
        reqs[r].op = "exchange"
        => /\ ~reqs[r].res.success => ~HandsOutToken(r)
           /\ HandsOutToken(r)
              => /\ reqs[r].pc = "done" /\ reqs[r].res.success
                 /\ reqs[r].passed /\ reqs[r].res.lookup
                 /\ libTokens[reqs[r].libId].usageCount >= 1
                 /\ libTokens[reqs[r].libId].lastUsed # Null
                 /\ reqs[r].res.target \in DOMAIN appInfos
                 /\ appInfos[reqs[r].res.target].appName = reqs[r].appName
                 /\ appInfos[reqs[r].res.target].version = reqs[r].version
                 /\ appInfos[reqs[r].res.target].libraryToken = reqs[r].token
                 /\ reqs[r].res.token.appInfoId = reqs[r].res.target
                 /\ reqs[r].res.token # NoJwt /\ reqs[r].res.refreshToken # NoJwt

\* an exchange failed after its usage was recorded and its AppInfo saved (the
\* owner of the token was gone), next to one that succeeded
C16_Witness ==
    \E r, q \in DOMAIN reqs :
        /\ reqs[r].op = "exchange" /\ reqs[r].pc = "done"
        /\ reqs[r].passed /\ ~reqs[r].res.success
        /\ reqs[q].op = "exchange" /\ reqs[q].pc = "done" /\ reqs[q].res.success

----------------------------------------------------------------------------
\* C17: generateLibraryToken called for a deactivated administrator fails
\* with "Admin account is deactivated", and called with validityDays outside
\* 1..365 (0 and negative values included) fails with the validation error;
\* on the route the gate and the validator refuse the same requests; in all
\* these cases no LibraryToken record is created.
C17_IssueRefusedCreatesNothing ==
    [][/\ (last'.op = "generateLibraryToken" /\ last'.adminId = ObjectId(1)
           /\ last'.input = NoJwt /\ 1 \in DOMAIN admins)
          => \A validityDays \in {last'.reqDays} :
                GenerateLibraryTokenCall(1, validityDays)
                => /\ ~admins[1].isActive
                      => /\ ~last'.success /\ last'.code = "ACCOUNT_DEACTIVATED"
                         /\ libTokens' = libTokens
                   /\ (validityDays < 1 \/ validityDays > 365)
                      => /\ ~last'.success /\ libTokens' = libTokens
                         /\ admins[1].isActive
                            => /\ last'.status = 400
                               /\ last'.code = "INVALID_VALIDITY_DAYS"
       /\ (last'.input \in jwts /\ last'.input.id \in DOMAIN admins
           /\ last'.reqDays # Null)
          => \A tok \in {last'.input}, validityDays \in {last'.reqDays} :
                GenerateLibraryTokenRoute(tok, validityDays)
                => /\ ~admins[tok.id].isActive
                      => /\ ~last'.success /\ libTokens' = libTokens
                         /\ Unexpired(tok, JwtSecret(env))
                            => last'.code = "ADMIN_DEACTIVATED"
                   /\ (validityDays < 1 \/ validityDays > 365)
                      => /\ ~last'.success /\ libTokens' = libTokens
                         /\ GateAdmin(tok, admins, now, env).success
                            => /\ last'.status = 400
                               /\ last'.code = "VALIDATION_ERROR"
      ]_vars

\* the issuer has just refused a deactivated administrator who asked for one
\* day, and the store holds no token of theirs
C17_Witness ==
    /\ last.op = "generateLibraryToken" /\ last.code = "ACCOUNT_DEACTIVATED"
    /\ last.reqDays = 1
    /\ 1 \in DOMAIN admins /\ ~admins[1].isActive
    /\ \A id \in DOMAIN libTokens : libTokens[id].createdBy # 1

----------------------------------------------------------------------------
\* C18: a successful generateLibraryToken for administrator a with
\* validityDays V at time T adds exactly one LibraryToken record, with
\* createdBy = a, usageCount 0, lastUsed unset, isActive true and validity
\* T + V days; every other LibraryToken, Admin and AppInfo record is left as
\* it was; and the lookup of an exchange with the new token value at time T
\* reports no error.
C18_IssueAddsOneRecord ==
    [][(/\ last'.op = "generateLibraryToken" /\ last'.success
        /\ IF last'.input = NoJwt
           THEN GenerateLibraryTokenCall(1, last'.reqDays)
           ELSE GenerateLibraryTokenRoute(last'.input, last'.reqDays))
       => LET added == DOMAIN libTokens' \ DOMAIN libTokens
              owner == IF last'.input = NoJwt THEN 1 ELSE last'.input.id
          IN  /\ Cardinality(added) = 1
              /\ \A id \in added :
                    /\ libTokens'[id].createdBy = owner
                    /\ libTokens'[id].usageCount = 0
                    /\ libTokens'[id].lastUsed = Null
                    /\ libTokens'[id].isActive
                    /\ libTokens'[id].validity
                         = now + last'.reqDays * 24 * 60 * 60 * 1000
                    /\ LookupError(libTokens', libTokens'[id].token, now) = ""
                    /\ LET res == AuthenticateDevice(libTokens', appInfos', admins',
                                                     libTokens'[id].token, FirstApp,
                                                     now, env).res
                       IN  /\ res.lookup
                           /\ res.code \notin {"INVALID_TOKEN", "TOKEN_DEACTIVATED",
                                                "TOKEN_EXPIRED"}
              /\ \A id \in DOMAIN libTokens : libTokens'[id] = libTokens[id]
              /\ admins' = admins /\ appInfos' = appInfos
      ]_vars

\* a token has just been issued, later than time 0 and next to another token
C18_Witness ==
    /\ last.op = "generateLibraryToken" /\ last.success
    /\ now > 0
    /\ Cardinality(DOMAIN libTokens) = 2
    /\ last.reqDays = MaxAccountValidityDays

----------------------------------------------------------------------------
\* C19: every device access token a client holds, from an exchange or from a
\* refresh, names a stored AppInfo record and carries the value of that
\* record's library token; and the access token a refresh returns has the
\* appInfoId, appName, version and library-token value of the access token
\* that was issued together with the refresh token.
C19_AccessTokenCarriesLibraryToken ==
    /\ \A tok \in jwts :
          tok.type = "device"
          => /\ tok.appInfoId \in DOMAIN appInfos
             /\ tok.libraryToken = appInfos[tok.appInfoId].libraryToken
             /\ \E id \in DOMAIN libTokens : libTokens[id].token = tok.libraryToken
    /\ (last.op = "refresh" /\ last.success)
       => LET first == FirstExchange(env).res.token
          IN  /\ last.token.appInfoId = first.appInfoId
              /\ last.token.appName = first.appName
              /\ last.token.version = first.version
              /\ last.token.libraryToken = first.libraryToken

----------------------------------------------------------------------------
\* C20: after any sequence of administrator and token operations, the owner
\* record of every active LibraryToken still exists: no administrator is
\* deleted while an active token names it in createdBy.
C20_OwnerOfActiveTokenExists ==
    \A id \in DOMAIN libTokens :
        libTokens[id].isActive => libTokens[id].createdBy \in DOMAIN admins

----------------------------------------------------------------------------
\* the login requests from ip that reached credential verification and failed
FailedLogins(rs, ip) ==
    {r \in DOMAIN rs : /\ rs[r].op = "login" /\ rs[r].pc = "done"
                       /\ rs[r].reached /\ ~rs[r].res.success /\ rs[r].ip = ip}

\* C21: within any 15-minute window at most 5 failed login attempts from one
\* IP reach credential verification, and once 5 failures are recorded every
\* further login request from that IP is answered 429 until 15 minutes after
\* the last of them, whether the requests arrive one after another or overlap.
C21_LoginRateLimited ==
    [][\A ip \in Ips :
          /\ \A first \in FailedLogins(reqs', ip) :
                Cardinality({r \in FailedLogins(reqs', ip) :
                                /\ reqs'[first].arrivedAt <= reqs'[r].arrivedAt
                                /\ reqs'[r].arrivedAt
                                     < reqs'[first].arrivedAt + 15 * 60 * 1000})
                    <= 5
          /\ \A r \in DOMAIN reqs :
                (/\ reqs[r].pc = "new" /\ reqs'[r].pc # "new" /\ reqs'[r].ip = ip
                 /\ Cardinality({q \in FailedLogins(reqs, ip) :
                                    now < reqs[q].arrivedAt + 15 * 60 * 1000}) >= 5)
                => /\ reqs'[r].pc = "done"
                   /\ reqs'[r].res.status = 429
                   /\ ~reqs'[r].reached
      ]_vars

----------------------------------------------------------------------------
\* C22: when failed login calls for the same administrator overlap, lockout
\* is delayed by at most one attempt: in every interleaving the account is
\* locked once six wrong-password comparisons have been performed and
\* recorded since the counter was last reset.
C22_LockoutDelayedByOne ==
    \A a \in DOMAIN admins :
        failedSince[a] >= 6 => admins[a].lockUntil # Null /\ admins[a].lockUntil > now

----------------------------------------------------------------------------
\* C28: in every reachable state of an administrator record, states reached
\* by overlapping login calls included, lock-until is set only if the
\* failed-attempt counter is at least 5: an account whose counter is in 0..4
\* is never locked.
C28_LockedOnlyAtFive ==
    \A a \in DOMAIN admins :
        admins[a].lockUntil # Null => admins[a].loginAttempts >= 5

----------------------------------------------------------------------------
\* the issuance calls that are over and whose last candidate passed the
\* uniqueness check
PassedUniqueness ==
    {r \in DOMAIN reqs :
        /\ reqs[r].op = "issue" /\ reqs[r].pc = "done"
        /\ "token" \in DOMAIN reqs[r] /\ reqs[r].token # Undefined
        /\ reqs[r].res.error # "Failed to generate unique token after maximum attempts"}

\* C23: when two overlapping issuance calls generated the same candidate and
\* both passed the uniqueness check, the unique index turns the second insert
\* away, that call regenerates and still returns a token, and the duplicate
\* is never stored.
C23_DuplicateInsertRetried ==
    /\ \A i, j \in DOMAIN libTokens :
          libTokens[i].token = libTokens[j].token => i = j
    /\ \A r1, r2 \in PassedUniqueness :
          (r1 # r2 /\ reqs[r1].token = reqs[r2].token)
          => /\ reqs[r1].res.success /\ reqs[r2].res.success
             /\ reqs[r1].res.target # reqs[r2].res.target

----------------------------------------------------------------------------
\* the library token behind the AppInfo a device token names is deactivated
LibraryTokenDeactivated(tok) ==
    /\ tok.appInfoId \in DOMAIN appInfos
    /\ FindByToken(libTokens, appInfos[tok.appInfoId].libraryToken) # {}
    /\ \A id \in FindByToken(libTokens, appInfos[tok.appInfoId].libraryToken) :
          ~libTokens[id].isActive

\* C24: after a library token is deactivated, a device that completed an
\* exchange with it keeps obtaining access tokens through refresh, and these
\* pass access-token validation, with no new exchange, until its refresh
\* token expires 7 days after the exchange; from then on refresh fails, and
\* a new exchange with that library token answers TokenDeactivated.
C24_SessionOutlivesDeactivation ==
    [][/\ (/\ last'.op = "refresh" /\ last'.input.type = "refresh"
           /\ RefreshAccess(last'.input)
           /\ LibraryTokenDeactivated(last'.input))
          => IF now < (last'.input.iat + 7 * 24 * 60 * 60) * 1000
             THEN /\ last'.success
                  /\ last'.token.appInfoId = last'.input.appInfoId
                  /\ GateDevice(last'.token, appInfos', now', env').success
                  /\ libTokens' = libTokens
             ELSE /\ ~last'.success /\ last'.token = NoJwt
                  /\ AuthenticateDevice(libTokens', appInfos', admins', IssuedToken,
                                        FirstApp, now', env').res.code
                        = "TOKEN_DEACTIVATED"
       /\ (last'.op = "exchange" /\ ExchangeDevice(IssuedToken, FirstApp))
          => /\ last'.success
                => /\ last'.refreshToken.iat * 1000 = now
                   /\ last'.refreshToken.exp
                        = last'.refreshToken.iat + 7 * 24 * 60 * 60
             /\ (\E id \in FindByToken(libTokens, IssuedToken) :
                    ~libTokens[id].isActive)
                => /\ last'.code = "TOKEN_DEACTIVATED"
                   /\ last'.token = NoJwt /\ last'.refreshToken = NoJwt
                   /\ libTokens' = libTokens /\ appInfos' = appInfos
      ]_vars

\* six days or more after the exchange, and with the library token
\* deactivated, the device gate has just let through an access token that a
\* refresh returned
C24_Witness ==
    /\ last.op = "authenticateDevice" /\ last.success
    /\ LibraryTokenDeactivated(last.input)
    /\ \E tok \in jwts :
          /\ tok.type = "refresh"
          /\ last.input.iat >= tok.iat + 6 * 24 * 60 * 60

----------------------------------------------------------------------------
----------------------------------------------------------------------------
\* C27: a successful login clears the failed-attempt counter and lock-until
\* and stamps last-login with the time of the call; so whenever lock-until is
\* set, at least 5 failed password comparisons have happened for the account
\* since its last successful login (logins one after another).
C27_SuccessClearsFailures ==
    [][\A a \in DOMAIN admins :
         /\ (/\ last'.op = "login" /\ last'.success
             /\ a \in FindByEmailWithPassword(admins, last'.reqEmail)
             /\ \E password \in LoginPasswords : Login(last'.reqEmail, password))
            => /\ admins'[a].loginAttempts = 0
               /\ admins'[a].lockUntil = Null
               /\ admins'[a].lastLogin = now
               /\ failedSince'[a] = 0
         /\ admins'[a].lockUntil # Null => failedSince'[a] >= maxAttempts
      ]_vars

\* four failures after a successful login: the counter is 4 and the account
\* is not locked
C27_Witness ==
    /\ last.op = "login" /\ last.compared /\ ~last.success
    /\ \E a \in FindByEmailWithPassword(admins, last.reqEmail) :
          /\ admins[a].lastLogin # Null
          /\ failedSince[a] = 4
          /\ admins[a].loginAttempts = 4
          /\ admins[a].lockUntil = Null

----------------------------------------------------------------------------
\* C25: at most one administrator record holds the super-admin role in every
\* reachable state, also when provisioning runs overlap so that each checks
\* for an existing super admin before any of them inserts.
C25_SingleSuperAdmin ==
    Cardinality({a \in DOMAIN admins :
                    "role" \in DOMAIN admins[a] /\ admins[a].role = "superadmin"}) <= 1

----------------------------------------------------------------------------
\* C29: every exchange that passes the lookup step increments the usage
\* counter of its library token by exactly 1 and stamps last-used, before the
\* AppInfo is written; the later steps of the call, failing or not, leave the
\* library token as it is; a call rejected at input validation or at the
\* lookup leaves every record unchanged.
C29_UsageRecordedOncePerCall ==
    [][\A r \in DOMAIN reqs :
         /\ (reqs[r].pc = "recordUsage" /\ reqs'[r].pc = "findAppInfo")
            => /\ libTokens'[reqs[r].libId].usageCount
                    = libTokens[reqs[r].libId].usageCount + 1
               /\ libTokens'[reqs[r].libId].lastUsed = reqs[r].usedAt
               /\ appInfos' = appInfos
         /\ (reqs[r].pc \in {"findAppInfo", "saveAppInfo"} /\ reqs'[r].pc # reqs[r].pc)
            => libTokens' = libTokens
         /\ (reqs[r].pc = "new" /\ reqs'[r].pc = "done")
            => /\ ~reqs'[r].res.success
               /\ libTokens' = libTokens /\ appInfos' = appInfos /\ admins' = admins
      ]_vars

----------------------------------------------------------------------------
\* the active AppInfo records of a tuple
ActiveFor(store, appName, version, libraryToken) ==
    {id \in DOMAIN store : /\ store[id].appName = appName
                          /\ store[id].version = version
                          /\ store[id].libraryToken = libraryToken
                          /\ store[id].isActive}

AtMostOneActive(store) ==
    \A id \in DOMAIN store :
       Cardinality(ActiveFor(store, store[id].appName, store[id].version,
                             store[id].libraryToken)) <= 1

\* C30: with exchanges one after another and AppInfo deactivations, at most
\* one active AppInfo exists per (appName, version, library token); an
\* exchange for a tuple with an active record adds exactly 1 to that record's
\* auth counter and creates no record; an exchange for a tuple with no active
\* record creates exactly one new record, with counter 1.
C30_OneActiveIdentityPerTuple ==
    [][/\ AtMostOneActive(appInfos) /\ AtMostOneActive(appInfos')
       /\ \A app \in IdentityApps :
            (/\ last'.op = "exchange" /\ last'.success
             /\ ExchangeDevice(IssuedToken, app))
            => LET active == ActiveFor(appInfos, Trim(app.appName), Trim(app.version),
                                       IssuedToken)
               IN  IF active # {}
                   THEN /\ DOMAIN appInfos' = DOMAIN appInfos
                        /\ last'.target \in active
                        /\ \A id \in DOMAIN appInfos :
                              IF id \in active
                              THEN /\ appInfos'[id].authCount = appInfos[id].authCount + 1
                                   /\ appInfos'[id].isActive
                              ELSE appInfos'[id] = appInfos[id]
                   ELSE /\ DOMAIN appInfos' = DOMAIN appInfos \cup {last'.target}
                        /\ last'.target \notin DOMAIN appInfos
                        /\ \A id \in DOMAIN appInfos : appInfos'[id] = appInfos[id]
                        /\ appInfos'[last'.target].authCount = 1
                        /\ ActiveFor(appInfos', Trim(app.appName), Trim(app.version),
                                     IssuedToken) = {last'.target}
      ]_vars

\* an exchange has just created a record with counter 1 for a tuple whose
\* earlier record is deactivated, while another tuple has an active record
\* with counter 2
C30_Witness ==
    /\ last.op = "exchange" /\ last.success
    /\ last.target \in DOMAIN appInfos
    /\ appInfos[last.target].authCount = 1
    /\ \E old \in DOMAIN appInfos :
          /\ old # last.target
          /\ ~appInfos[old].isActive
          /\ appInfos[old].appName = appInfos[last.target].appName
          /\ appInfos[old].version = appInfos[last.target].version
    /\ \E other \in DOMAIN appInfos :
          /\ appInfos[other].isActive /\ appInfos[other].authCount = 2
          /\ appInfos[other].version # appInfos[last.target].version

----------------------------------------------------------------------------
\* C31: library-token generation always terminates: every turn of the loop
\* counts one candidate and no call draws more than 10; the loop returns a
\* candidate exactly when findOne did not find it in the store, goes on
\* after a collision while fewer than 10 candidates were drawn, and fails
\* with "Failed to generate unique token after maximum attempts" exactly
\* when the 10th candidate collides too; in the end no call is in the loop.
C31_GenerationBounded ==
    /\ [][\A r \in DOMAIN reqs :
            (reqs[r].pc = "generate" /\ reqs'[r] # reqs[r])
            => LET present == FindByToken(libTokens, reqs'[r].token) # {}
               IN  /\ reqs'[r].attempts = reqs[r].attempts + 1
                   /\ reqs'[r].attempts <= maxTokenAttempts
                   /\ reqs'[r].pc \in {"generate", "save", "done"}
                   /\ reqs'[r].pc = "save" <=> ~present
                   /\ reqs'[r].pc = "done"
                        <=> (present /\ reqs'[r].attempts = maxTokenAttempts)
                   /\ reqs'[r].pc = "done"
                        => /\ ~reqs'[r].res.success
                           /\ reqs'[r].res.error
                                = "Failed to generate unique token after maximum attempts"
                   /\ libTokens' = libTokens
         ]_vars
    /\ <>[](\A r \in DOMAIN reqs : reqs[r].pc # "generate")

\* one call has ended after ten colliding candidates, another one stored the
\* candidate of its second draw or a later one
C31_Witness ==
    /\ \E r \in DOMAIN reqs :
          /\ reqs[r].pc = "done" /\ reqs[r].op = "issue"
          /\ "attempts" \in DOMAIN reqs[r] /\ reqs[r].attempts = maxTokenAttempts
          /\ reqs[r].res.error = "Failed to generate unique token after maximum attempts"
    /\ \E r \in DOMAIN reqs :
          /\ reqs[r].pc = "done" /\ reqs[r].res.success
          /\ reqs[r].attempts >= 2

----------------------------------------------------------------------------
\* C32: a refresh, whether it succeeds or fails, leaves every LibraryToken
\* (usage counter, last-used, active flag) and every AppInfo (auth counter,
\* last-authenticated) unchanged, and the administrators as well.
C32_RefreshTouchesNoStore ==
    [][(last'.op = "refresh" /\ RefreshAccess(last'.input))
       => /\ libTokens' = libTokens
          /\ appInfos' = appInfos
          /\ admins' = admins
      ]_vars

\* a refresh has just succeeded for a device whose AppInfo and library token
\* have been used in an exchange
C32_Witness ==
    /\ last.op = "refresh" /\ last.success
    /\ last.target \in DOMAIN appInfos
    /\ appInfos[last.target].authCount >= 1
    /\ \E id \in DOMAIN libTokens : libTokens[id].usageCount >= 1

----------------------------------------------------------------------------
\* C33: the device gate lets a request through only if the AppInfo named by
\* the token's appInfoId exists and is active at that time; a device token
\* whose AppInfo is deactivated is rejected, also one that a refresh has
\* minted (it carries no library token), and the rejection writes nothing.
C33_GateNeedsActiveIdentity ==
    [][(last'.op = "authenticateDevice" /\ AuthenticateDeviceGate(last'.input))
       => /\ last'.success
             => /\ last'.input.type = "device"
                /\ last'.input.appInfoId \in DOMAIN appInfos
                /\ appInfos[last'.input.appInfoId].isActive
          /\ (/\ last'.input.appInfoId \in DOMAIN appInfos
              /\ ~appInfos[last'.input.appInfoId].isActive)
             => /\ ~last'.success
                /\ last'.status \in {401, 403}
                /\ appInfos' = appInfos
          /\ (/\ last'.input.type = "device"
              /\ JwtVerify(last'.input, JwtSecret(env), now) = "ok"
              /\ last'.input.appInfoId \in DOMAIN appInfos
              /\ ~appInfos[last'.input.appInfoId].isActive)
             => last'.code = "APP_DEACTIVATED"
      ]_vars

\* the gate has just answered APP_DEACTIVATED to an unexpired device token
\* that a refresh minted
C33_Witness ==
    /\ last.op = "authenticateDevice" /\ last.code = "APP_DEACTIVATED"
    /\ last.input.type = "device"
    /\ last.input.libraryToken = Undefined
    /\ ~appInfos[last.input.appInfoId].isActive

----------------------------------------------------------------------------
\* C34: the auth counter and the last-authenticated time of an AppInfo
\* change only in a successful exchange for its tuple; the device gate only
\* reads the record and leaves it unchanged.
C34_GateOnlyReads ==
    [][/\ (last'.op = "authenticateDevice" /\ AuthenticateDeviceGate(last'.input))
          => appInfos' = appInfos
       /\ \A id \in DOMAIN appInfos :
            (\/ appInfos'[id].authCount # appInfos[id].authCount
             \/ appInfos'[id].lastAuthAt # appInfos[id].lastAuthAt)
            => /\ last'.op = "exchange" /\ last'.success
               /\ last'.target = id
      ]_vars

----------------------------------------------------------------------------
\* C35: a login call made while the account is locked is refused and changes
\* neither the failed-attempt counter nor lock-until; a failure that locks
\* the account sets lock-until to 2 hours after that call; and from that
\* time on a login with the correct password succeeds (logins one after
\* another).
C35_LockNeverExtended ==
    [][last'.op = "login"
       => \A a \in FindByEmailWithPassword(admins, last'.reqEmail) :
            /\ (/\ IsLocked(admins[a], now)
                /\ \E password \in LoginPasswords : Login(last'.reqEmail, password))
               => /\ ~last'.success /\ last'.code = "ACCOUNT_LOCKED"
                  /\ ~last'.compared
                  /\ admins' = admins
            /\ (/\ admins'[a].lockUntil # admins[a].lockUntil
                /\ admins'[a].lockUntil # Null)
               => admins'[a].lockUntil = now + 2 * HourMs
            /\ (/\ admins[a].lockUntil # Null
                /\ now >= admins[a].lockUntil
                /\ Login(last'.reqEmail, PasswordOf(a)))
               => /\ last'.success
                  /\ admins'[a].loginAttempts = 0
                  /\ admins'[a].lockUntil = Null
      ]_vars

\* one hour after the failure that locked the account, a login has just been
\* refused: the counter is still 5 and lock-until is still 2 hours after the
\* locking failure
C35_Witness ==
    /\ last.op = "login" /\ last.code = "ACCOUNT_LOCKED"
    /\ now = HourMs
    /\ \E a \in FindByEmailWithPassword(admins, last.reqEmail) :
          /\ admins[a].loginAttempts = maxAttempts
          /\ admins[a].lockUntil = 2 * HourMs

----------------------------------------------------------------------------
\* the administrator record a token names exists, is active and is not locked
AdminInGoodStanding(tok) ==
    /\ tok.id \in DOMAIN admins
    /\ admins[tok.id].isActive
    /\ ~IsLocked(admins[tok.id], now)

\* C36: a request that carries an admin session token passes the admin gate
\* exactly when the token is a good admin token and the administrator record
\* exists, is active and is not locked at that time; otherwise the request
\* is answered by the gate and the handler behind it writes nothing. A
\* lockout from failed logins therefore stops a token issued before it.
C36_AdminGateNeedsGoodStanding ==
    [][\A tok \in jwts :
         (\E password \in AccountPasswords, confirmation \in Confirmations :
             /\ last'.input = tok
             /\ DeleteAdminRoute(tok, password, confirmation))
         => /\ (last'.op = "authenticateAdmin")
               <=> ~(/\ tok.type = "admin"
                     /\ JwtVerify(tok, JwtSecret(env), now) = "ok"
                     /\ AdminInGoodStanding(tok))
            /\ last'.op = "authenticateAdmin"
               => /\ ~last'.success
                  /\ admins' = admins /\ libTokens' = libTokens
            /\ (/\ tok.type = "admin"
                /\ JwtVerify(tok, JwtSecret(env), now) = "ok"
                /\ tok.id \in DOMAIN admins
                /\ admins[tok.id].isActive
                /\ IsLocked(admins[tok.id], now))
               => last'.code = "ADMIN_LOCKED"
      ]_vars

\* a request with an unexpired admin token has just been stopped by the gate
\* because failed logins locked the account after the token was issued
C36_Witness ==
    /\ last.op = "authenticateAdmin" /\ last.code = "ADMIN_LOCKED"
    /\ last.input.type = "admin"
    /\ last.input.id \in DOMAIN admins
    /\ admins[last.input.id].loginAttempts >= maxAttempts
    /\ admins[last.input.id].lastLogin # Null
    /\ admins[last.input.id].lockUntil > now

----------------------------------------------------------------------------
\* POST /device/auth with this token and a well-formed appInfo, at this instant
ExchangeNow(token) ==
    AuthenticateDevice(libTokens, appInfos, admins, token, FirstApp, now, env).res

\* C37: validateLibraryToken(t) reports valid exactly when an exchange with
\* t and well-formed app info at the same instant would pass the lookup
\* step; it reports not found, deactivated, expired exactly when that
\* exchange answers INVALID_TOKEN, TOKEN_DEACTIVATED, TOKEN_EXPIRED; and it
\* changes no record.
C37_ValidateAgreesWithExchange ==
    [][(last'.op = "validateLibraryToken" /\ ValidateToken(last'.reqToken))
       => /\ last'.success
             <=> /\ ExchangeNow(last'.reqToken).lookup
                 /\ ExchangeNow(last'.reqToken).code
                        \notin {"INVALID_TOKEN", "TOKEN_DEACTIVATED", "TOKEN_EXPIRED"}
          /\ last'.error = "Token not found"
             <=> ExchangeNow(last'.reqToken).code = "INVALID_TOKEN"
          /\ last'.error = "Token is deactivated"
             <=> ExchangeNow(last'.reqToken).code = "TOKEN_DEACTIVATED"
          /\ last'.error = "Token has expired"
             <=> ExchangeNow(last'.reqToken).code = "TOKEN_EXPIRED"
          /\ libTokens' = libTokens /\ appInfos' = appInfos /\ admins' = admins
      ]_vars

\* C38: every exchange with well-formed input against a library token that
\* is active and not expired succeeds and returns an access token and a
\* refresh token, whatever happened to the administrator who issued the
\* token (deactivated, locked or deleted).
C38_ExchangeIgnoresOwner ==
    [][(/\ last'.op = "exchange"
        /\ ExchangeDevice(last'.reqToken, FirstApp)
        /\ \E id \in FindByToken(libTokens, last'.reqToken) :
              libTokens[id].isActive /\ ~IsExpired(libTokens[id], now))
       => /\ last'.success
          /\ last'.token.type = "device"
          /\ last'.refreshToken.type = "refresh"
      ]_vars

====
